---------------------------- MODULE Spec2Model ----------------------------
(***************************************************************************)
(* Model of the numerical procedures of the jdat_notebooks NIRISS WFSS     *)
(* post-pipeline notebooks:                                                *)
(*   02_Cross_correlation_template.ipynb   (template correlation, peak     *)
(*                                          location, parabolic refinement)*)
(*   03_Spatially_resolved_emission_line_map.ipynb (row-wise continuum     *)
(*                                          and emission-line loops)       *)
(* A notebook cell is one operation; a for-loop body is stepped statement  *)
(* by statement.  Library calls (specutils, astropy, numpy) are modelled   *)
(* by what they return; where the library's result cannot be derived from  *)
(* the notebook it is a nondeterministic choice over its possible results. *)
(* Arithmetic is exact (rationals as reduced integer pairs).               *)
(***************************************************************************)
EXTENDS Integers, Sequences, FiniteSets, TLC

(***************************************************************************)
(* Bounds of the model.                                                    *)
(***************************************************************************)
\* longest correlation curve returned by template_correlate
MaxL == 19
\* longest curve for which every value sequence over 0..MaxShortVal is tried
MaxShortL == 3
\* largest value of those short curves
MaxShortVal == 2

(***************************************************************************)
(* Integer and rational helpers.                                           *)
(***************************************************************************)
Abs(x) == IF x < 0 THEN -x ELSE x

Max2(x, y) == IF x >= y THEN x ELSE y

Min2(x, y) == IF x <= y THEN x ELSE y

Sign(x) == IF x > 0 THEN 1 ELSE IF x < 0 THEN -1 ELSE 0

RECURSIVE GCD(_, _)
GCD(x, y) == IF y = 0 THEN Abs(x) ELSE GCD(y, x % Abs(y))

\* the reduced fraction num/den, den > 0, as the pair <<num, den>>
Rat(num, den) ==
    LET g == GCD(num, den)
        s == IF den < 0 THEN -1 ELSE 1
    IN  << (s * num) \div g, (s * den) \div g >>

RECURSIVE SumSeq(_)
SumSeq(s) == IF s = << >> THEN 0 ELSE Head(s) + SumSeq(Tail(s))


(***************************************************************************)
(* The sign of x1*y1 - x2*y2 for non-negative integers below 2^31, by      *)
(* schoolbook multiplication in base 1000, so that no intermediate value   *)
(* leaves the integer range of TLC.                                        *)
(***************************************************************************)
Dig(x, i) ==
    (x \div (IF i = 0 THEN 1 ELSE IF i = 1 THEN 1000 ELSE IF i = 2 THEN 1000000
             ELSE 1000000000)) % 1000

Coef(x, y, k) ==
    SumSeq([i \in 1 .. 4 |->
              IF k - (i - 1) \in 0 .. 3 THEN Dig(x, i - 1) * Dig(y, k - (i - 1)) ELSE 0])

\* digits k .. 7 of x*y, least significant first
RECURSIVE ProdDigits(_, _, _, _)
ProdDigits(x, y, k, carry) ==
    IF k > 7 THEN << >>
    ELSE LET t == Coef(x, y, k) + carry
         IN  << t % 1000 >> \o ProdDigits(x, y, k + 1, t \div 1000)

RECURSIVE CmpDigits(_, _, _)
CmpDigits(d1, d2, k) ==
    IF k = 0 THEN 0
    ELSE IF d1[k] # d2[k] THEN Sign(d1[k] - d2[k])
    ELSE CmpDigits(d1, d2, k - 1)

SignProdDiff(x1, y1, x2, y2) ==
    CmpDigits(ProdDigits(x1, y1, 0, 0), ProdDigits(x2, y2, 0, 0), 8)

\* the sign of the discriminant b^2 - 4ac
DiscSign(a, b, c) ==
    IF Sign(a) * Sign(c) < 0 THEN 1
    ELSE IF Sign(a) * Sign(c) = 0 THEN (IF b = 0 THEN 0 ELSE 1)
    ELSE SignProdDiff(Abs(b), Abs(b), 2 * Abs(a), 2 * Abs(c))

(***************************************************************************)
(* numpy / Python primitives used by the peak-location cells.              *)
(* Arrays are sequences; array indices are Python's (0-based): element i   *)
(* of array a is a[i + 1].                                                 *)
(***************************************************************************)
\* a[start:stop] on an array of length len: the half-open 0-based index
\* range <<lo, hi>> Python selects (a negative bound counts from the end,
\* then both bounds are clamped to 0..len)
PySliceBounds(len, start, stop) ==
    LET norm(k) == IF k < 0 THEN Max2(k + len, 0) ELSE Min2(k, len)
    IN  << norm(start), norm(stop) >>

PySlice(a, start, stop) ==
    LET b == PySliceBounds(Len(a), start, stop)
    IN  IF b[1] >= b[2] THEN << >> ELSE SubSeq(a, b[1] + 1, b[2])

\* np.argmax(a), a non-empty: the first (lowest) index of the largest value
ArgMaxLast(a) ==
    CHOOSE i \in 0 .. Len(a) - 1 :
        /\ \A j \in 0 .. Len(a) - 1 : a[j + 1] <= a[i + 1]
        /\ \A j \in i + 1 .. Len(a) - 1 : a[j + 1] < a[i + 1]

ArgMax(a) ==
    CHOOSE i \in 0 .. Len(a) - 1 :
        /\ \A j \in 0 .. Len(a) - 1 : a[j + 1] <= a[i + 1]
        /\ \A j \in 0 .. i - 1 : a[j + 1] < a[i + 1]

\* n = 8: points to the left or right of the correlation maximum
n == 8

\* a[index_peak-n : index_peak+n+1]
PeakWindowNoPlusOne(a, i) == PySlice(a, i - n, i + n)

PeakWindow(a, i) == PySlice(a, i - n, i + n + 1)

(***************************************************************************)
(* np.polyfit(x, y, deg=2), the exact least-squares solution for at least  *)
(* three distinct abscissae: the normal equations solved by Cramer's rule. *)
(* The result is [a, b, c, den]: the quadratic (a x^2 + b x + c) / den,    *)
(* den > 0, the four integers without a common factor.                     *)
(***************************************************************************)
PowSum(xs, ys, k) ==
    SumSeq([i \in 1 .. Len(xs) |->
              (IF k = 0 THEN 1 ELSE IF k = 1 THEN xs[i] ELSE IF k = 2 THEN xs[i] * xs[i]
               ELSE IF k = 3 THEN xs[i] * xs[i] * xs[i]
               ELSE xs[i] * xs[i] * xs[i] * xs[i]) * ys[i]])

Det3(m) ==
      m[1][1] * (m[2][2] * m[3][3] - m[2][3] * m[3][2])
    - m[1][2] * (m[2][1] * m[3][3] - m[2][3] * m[3][1])
    + m[1][3] * (m[2][1] * m[3][2] - m[2][2] * m[3][1])

Quadratic(a, b, c, den) ==
    LET g == GCD(GCD(a, b), GCD(c, den))
        s == IF den < 0 THEN -1 ELSE 1
    IN  [a |-> (s * a) \div g, b |-> (s * b) \div g,
         c |-> (s * c) \div g, den |-> (s * den) \div g]

PolyFit2(xs, ys) ==
    LET one == [i \in 1 .. Len(xs) |-> 1]
        S(k) == PowSum(xs, one, k)
        T(k) == PowSum(xs, ys, k)
        det == Det3(<< <<S(4), S(3), S(2)>>, <<S(3), S(2), S(1)>>, <<S(2), S(1), S(0)>> >>)
        da  == Det3(<< <<T(2), S(3), S(2)>>, <<T(1), S(2), S(1)>>, <<T(0), S(1), S(0)>> >>)
        db  == Det3(<< <<S(4), T(2), S(2)>>, <<S(3), T(1), S(1)>>, <<S(2), T(0), S(0)>> >>)
        dc  == Det3(<< <<S(4), S(3), T(2)>>, <<S(3), S(2), T(1)>>, <<S(2), S(1), T(0)>> >>)
    IN  Quadratic(da, db, dc, det)

\* no fit yet
NoFit == [a |-> 0, b |-> 0, c |-> 0, den |-> 0]

(***************************************************************************)
(* np.roots(p) for a polynomial of degree at most 2.  Leading zero         *)
(* coefficients are stripped.  A root is re + off * sqrt(|D|) / |2a| with  *)
(* D = b^2 - 4ac; the offset is imaginary when im is TRUE (D < 0):         *)
(* [re |-> fraction, off |-> -1 | 0 | 1, im |-> BOOLEAN].                  *)
(***************************************************************************)
Roots(p) ==
    IF p.a # 0
    THEN LET D == DiscSign(p.a, p.b, p.c)
         IN  << [re |-> Rat(-p.b, 2 * p.a), off |-> Abs(D), im |-> D < 0],
                [re |-> Rat(-p.b, 2 * p.a), off |-> -Abs(D), im |-> D < 0] >>
    ELSE IF p.b # 0
    THEN << [re |-> Rat(-p.c, p.b), off |-> 0, im |-> FALSE] >>
    ELSE << >>

(***************************************************************************)
(* Scalar results.  A value is (re + off * sqrt(|D|)/|2a|) * c^cpow, with  *)
(* c the speed of light in km/s; kind is "num", "nan" (np.mean of an empty *)
(* array) or "none" (the name is not bound yet).                           *)
(***************************************************************************)
RatAdd(x, y) ==
    LET g == GCD(x[2], y[2])
    IN  Rat(x[1] * (y[2] \div g) + y[1] * (x[2] \div g), (x[2] \div g) * y[2])

RECURSIVE RatSum(_)
RatSum(s) == IF s = << >> THEN <<0, 1>> ELSE RatAdd(Head(s), RatSum(Tail(s)))

Num(re, off, im, cpow) == [kind |-> "num", re |-> re, off |-> off, im |-> im, cpow |-> cpow]

NaN == [kind |-> "nan", re |-> <<0, 1>>, off |-> <<0, 1>>, im |-> FALSE, cpow |-> 0]

None == [kind |-> "none", re |-> <<0, 1>>, off |-> <<0, 1>>, im |-> FALSE, cpow |-> 0]

\* np.mean(roots)
MeanFirstOnly(r) ==
    IF r = << >> THEN NaN
    ELSE Num(r[1].re, Rat(r[1].off, 1), r[1].im /\ r[1].off # 0, 0)

Mean(r) ==
    IF r = << >> THEN NaN
    ELSE LET res == RatSum([i \in 1 .. Len(r) |-> r[i].re])
             os  == SumSeq([i \in 1 .. Len(r) |-> r[i].off])
         IN  Num(Rat(res[1], res[2] * Len(r)), Rat(os, Len(r)),
                 os # 0 /\ \E i \in 1 .. Len(r) : r[i].im, 0)

\* x / const.c.to('km/s')
DivByC(x) == IF x.kind = "num" THEN [x EXCEPT !.cpow = @ - 1] ELSE x

(***************************************************************************)
(* Inputs of the peak-location cells: what correlation.template_correlate  *)
(* can return.  A curve has a peak at index pk and falls off to the left   *)
(* and to the right along a profile (value at distance k from the peak,    *)
(* the last value repeated); short curves take every value sequence.  The  *)
(* lag grid is uniform, in km/s, with lag 0 at the middle index.           *)
(***************************************************************************)
Tent == <<3, 2, 1, 0>>

Spike == <<1, 0>>

Steep == <<3, 1, 0>>

\* centre 10, 3 at distance 8, 0 elsewhere: its 17-point fit has a = 0
Shoulder == <<10, 0, 0, 0, 0, 0, 0, 0, 3, 0>>

\* centre 4 in a valley that rises outwards: its 17-point fit is convex
Valley == <<4, 0, 1, 2, 3>>

\* values (8-k)^2: with the peak at the right end the window is an exact
\* parabola with a double root
Bowl == <<64, 49, 36, 25, 16, 9, 4, 1, 0>>

\* a second point as high as the peak two samples to its right
Twin == <<1, 0, 1, 0>>

\* a peak of a correlation that is negative everywhere
NegTent == <<-1, -2, -3, -4>>

Shapes ==
    { [left |-> Tent, right |-> Tent], [left |-> Spike, right |-> Spike],
      [left |-> Shoulder, right |-> Shoulder], [left |-> Valley, right |-> Valley],
      [left |-> Tent, right |-> Steep], [left |-> Bowl, right |-> Spike],
      [left |-> Spike, right |-> Twin], [left |-> NegTent, right |-> NegTent] }

ProfileAt(prof, k) == prof[Min2(k, Len(prof) - 1) + 1]

ShapedCurve(len, pk, sh) ==
    [j \in 1 .. len |->
        IF j - 1 <= pk THEN ProfileAt(sh.left, pk - (j - 1))
        ELSE ProfileAt(sh.right, (j - 1) - pk)]

ShortCurves ==
    UNION { [1 .. len -> 0 .. MaxShortVal] : len \in 1 .. MaxShortL }

Curves ==
    ShortCurves \cup
    { ShapedCurve(len, pk, sh) :
        len \in MaxShortL + 1 .. MaxL, pk \in 0 .. MaxL - 1, sh \in Shapes }

LagGrid(len) == [j \in 1 .. len |-> (j - 1) - (len \div 2)]

\* wavelength ranges <<min, max>>, in nm (0.001 um), of the observed
\* spectrum p_obs and of the prepared template p_smooth_template
ObsRanges == { <<1020, 2230>> }

TemplateRanges == { <<360, 1300>>, <<360, 1020>>, <<360, 900>> }

Overlap(r1, r2) == r1[1] < r2[2] /\ r2[1] < r1[2]

(***************************************************************************)
(* Notebook 03: the 2D spectrum and the row-wise continuum fit.            *)
(* Wavelengths are integers in nm.  A fitted model is kept symbolically,   *)
(* as the spectrum it was fitted to; an array of model values is kept as   *)
(* the model and the wavelengths it was evaluated at.                      *)
(***************************************************************************)
\* rows of the 2D spectrum
MaxRows == 2
\* columns (dispersion direction) of the 2D spectrum
NCols == 10

\* model=Chebyshev1D(7)
Degree == 7

\* the line-free windows (low, high) of the continuum fit of each filter
ContinuumWindows(f) ==
    IF f = "f200w" THEN << <<1750, 1970>>, <<2080, 2230>> >>
    ELSE IF f = "f115w" THEN << <<1050, 1130>>, <<1170, 1250>> >>
    ELSE << <<1350, 1480>>, <<1600, 1650>> >>

\* the first window alone
MaskLineNoSecondWindow(w, f) ==
    [j \in 1 .. Len(w) |->
        ContinuumWindows(f)[1][1] < w[j] /\ w[j] < ContinuumWindows(f)[1][2]]

\* ((w > lo1) & (w < hi1)) | ((w > lo2) & (w < hi2)), element by element
MaskLine(w, f) ==
    [j \in 1 .. Len(w) |->
        \E k \in 1 .. 2 :
            ContinuumWindows(f)[k][1] < w[j] /\ w[j] < ContinuumWindows(f)[k][2]]

\* a[mask]: the elements of a where the boolean mask is True, in order
RECURSIVE BoolIndex(_, _)
BoolIndex(a, m) ==
    IF a = << >> THEN << >>
    ELSE (IF Head(m) THEN << Head(a) >> ELSE << >>) \o BoolIndex(Tail(a), Tail(m))

NoModel == [kind |-> "none", spectral_axis |-> << >>, flux |-> [kind |-> "none"]]

\* an array of values: "zeros"; "data" (the numbers in data); "eval" (model,
\* component comp of it when comp > 0, evaluated at the wavelengths at);
\* "diff" (data minus the values of model at the wavelengths at; data alone
\* where the subtracted array is zeros and at is empty)
Arr(kind, data, model, at, comp) ==
    [kind |-> kind, data |-> data, model |-> model, at |-> at, comp |-> comp]

ZerosArr == Arr("zeros", << >>, NoModel, << >>, 0)

\* Spectrum(spectral_axis=..., flux=...)
Spectrum(axis, fl) == [spectral_axis |-> axis, flux |-> fl]

NoSpectrum == Spectrum(<< >>, ZerosArr)

\* continuum.fit_generic_continuum(obs, model=Chebyshev1D(7)): the model
\* fitted to obs
FitContinuum(o) == [kind |-> "cheb7", spectral_axis |-> o.spectral_axis, flux |-> o.flux]

\* the values of a model at the wavelengths it was fitted to
EvalModelAtFitAxis(m, w) == Arr("eval", << >>, m, m.spectral_axis, 0)

\* model(w): the values of a model at the wavelengths w
EvalModel(m, w) == Arr("eval", << >>, m, w, 0)

\* outcomes of the continuum fit: with at least Degree+1 samples the model;
\* with fewer the fit is under-determined and the library, depending on its
\* fitter, returns a model all the same or raises an error of its own
FitOutcomes(o) ==
    IF Len(o.spectral_axis) >= Degree + 1 THEN {"model"} ELSE {"model", "raise"}

\* the image rows tried: wavelengths start + step * column
WaveRamp(start, step) == [j \in 1 .. NCols |-> start + step * (j - 1)]

FlatData == [j \in 1 .. NCols |-> 1]

RampData == [j \in 1 .. NCols |-> j]

ImageRows(f) ==
    IF f = "f200w"
    THEN { [wave |-> WaveRamp(1760, 20), data |-> FlatData],
           [wave |-> WaveRamp(1760, 20), data |-> RampData],
           [wave |-> WaveRamp(1700, 50), data |-> FlatData],
           [wave |-> WaveRamp(1000, 10), data |-> RampData],
           [wave |-> WaveRamp(2030, 10), data |-> FlatData] }
    ELSE { [wave |-> WaveRamp(1360, 10), data |-> FlatData],
           [wave |-> WaveRamp(1360, 10), data |-> RampData],
           [wave |-> WaveRamp(1340, 30), data |-> FlatData],
           [wave |-> WaveRamp(1510, 10), data |-> RampData] }

Images(f) == UNION { [1 .. nrows -> ImageRows(f)] : nrows \in 1 .. MaxRows }

(***************************************************************************)
(* State of notebook 02, cells "Cross Correlation" to "How does it look?". *)
(***************************************************************************)
VARIABLES
    pc,          \* the cell to run next: "correlate", "peak_max", "parabolic",
                 \* "show", then "done"; "aborted" after an exception; "idle"
    obs_range,   \* wavelength range of p_obs
    tmpl_range,  \* wavelength range of p_smooth_template
    corr, lag,   \* the correlation curve
    index_peak,  \* -1 while unbound
    v, z,        \* velocity and redshift
    peak_lags, peak_vals, p, roots, v_fit,
    printed,     \* what the cells printed: a sequence of <<label, value>>
    warned,      \* warning categories emitted so far
    raised,      \* the exception that stopped the run, "" if none
    shown_z      \* the redshift used by the final plot

peakVars ==
    << pc, obs_range, tmpl_range, corr, lag, index_peak, v, z, peak_lags,
       peak_vals, p, roots, v_fit, printed, warned, raised, shown_z >>

(***************************************************************************)
(* State of notebook 03: the continuum loop, the H-alpha cutout (F200W)    *)
(* and the line-fit loop (F150W).  The loops run statement by statement.   *)
(***************************************************************************)
VARIABLES
    filt,         \* "f200w" or "f150w": the file loaded into wave_2d, data_2d
    wave_2d, data_2d,
    flux_cont2d,  \* flux_cont2d (F200W) or flux_cont2d_150 (F150W)
    yy,           \* loop index (Python, 0-based)
    mask_line, obs, cont,
    rpc,          \* the statement to run next; "end", "aborted", "par", "idle"
    rraised,      \* the exception that stopped the run, "" if none
    rsq, cut_ha, line_2d, con, spectrum_cut, g123_fit, cut_hb, cut_o3b, cut_o3r,
    ppc,          \* concurrent run of the continuum loop: the statement each
                  \* iteration runs next
    sched         \* concurrent run: "any_order" (one whole iteration at a
                  \* time) or "interleaved" (statement by statement)

rowVars ==
    << filt, wave_2d, data_2d, flux_cont2d, yy, mask_line, obs, cont, rpc, rraised,
       rsq, cut_ha, line_2d, con, spectrum_cut, g123_fit, cut_hb, cut_o3b, cut_o3r,
       ppc, sched >>

(***************************************************************************)
(* State of notebook 02, cells "F200W" (continuum) to "Put data array into *)
(* Specutils format": the observed spectrum p_obs and the template         *)
(* p_smooth_template.  The per-filter names (wave_115, wave_150, wave_200, *)
(* ...) are functions of the filter.  numpy arrays that the cells modify   *)
(* in place are objects of a heap, the names hold references.              *)
(***************************************************************************)
VARIABLES
    qpc,          \* the cell to run next; "done", "shown", "aborted", "idle"
    qraised,      \* the exception that stopped the run, "" if none
    wave_f, flux_f, flux_err_f,   \* wave_115, flux_115, flux_err_115, ...
    mask,         \* the global mask, reassigned by each continuum cell
    obs_f, continuum_f, flux_sub_f, mask_f,   \* obs_200, continuum_200,
                                              \* flux_200_sub, mask_200, ...
    wave_obs, flux_obs, flux_err_obs, wht_obs, dataspec_sub, p_obs,
    h5file,       \* the datasets of the template file
    content,      \* what read_hdf5 returned
    heap,         \* the numpy arrays of the template cells
    flux_all, wave_all, flux, wave, wave_bin, flux_bin,   \* references
    template, continuum_model, p_template, p_smooth_template,
    z_rec,        \* the redshift z of the last cell, as the peak cells left it
    lag_step,     \* spacing of the lag grid, as a redshift (lag spacing / c)
    shown_axis    \* template.spectral_axis * (1. + z) of the last cell

prepVars ==
    << qpc, qraised, wave_f, flux_f, flux_err_f, mask, obs_f, continuum_f, flux_sub_f,
       mask_f, wave_obs, flux_obs, flux_err_obs, wht_obs, dataspec_sub, p_obs, h5file,
       content, heap, flux_all, wave_all, flux, wave, wave_bin, flux_bin, template,
       continuum_model, p_template, p_smooth_template, z_rec, lag_step, shown_axis >>

(***************************************************************************)
(* State of the download steps: the setup cell that fetches and unpacks    *)
(* the reference data (stpsf_examples "Gather stpsf files"; notebooks 02   *)
(* and 03 "Download notebook 01 products"), and mast_retrieve_files.       *)
(***************************************************************************)
VARIABLES
    setup,        \* "stpsf" or "niriss": the notebook of the setup cell
    fpc,          \* "ready" (the cell can be run), "fetch", "extract"; "idle"
    outcome,      \* of the last run of the cell: "none", "running", "done",
                  \* "failed", "skipped"
    fraised,      \* the exception of the last failed run, "" if none
    dir_exists,   \* os.path.exists of ./data (stpsf) or ./output (niriss)
    archive,      \* the downloaded archive: "absent", "partial", "complete"
    extracted,    \* number of archive members unpacked on disk
    item,         \* loop index of the extraction
    runs,         \* number of runs of the cell
    mast_dir,     \* the directory output_path exists
    mast_files,   \* the file output_path/filename, for each directory
    mast_requests,\* number of download requests issued
    mast_calls,   \* number of calls of mast_retrieve_files
    mast_call,    \* arguments of the last call
    mast_ret,     \* what the last call returned, or that it raised
    mast_login,   \* Mast.login was called
    mast_printed  \* what the calls printed

fetchVars ==
    << setup, fpc, outcome, fraised, dir_exists, archive, extracted, item, runs, mast_dir,
       mast_files, mast_requests, mast_calls, mast_call, mast_ret, mast_login,
       mast_printed >>

(***************************************************************************)
(* State of the magnitude conversion of the NIRCam photometry notebook.    *)
(***************************************************************************)
VARIABLES
    mpc,          \* "call" before fluxes2mags, "returned" after; "idle"
    phot_flux,    \* the argument flux: one number per source
    phot_fluxerr, \* the argument fluxerr
    mag, magerr   \* what fluxes2mags returned

photVars == << mpc, phot_flux, phot_fluxerr, mag, magerr >>

(***************************************************************************)
(* State of calls of download_file (stpsf_examples).                       *)
(***************************************************************************)
VARIABLES
    dpc,          \* "ready" while download_file can be called; "idle"
    dl_url,       \* the argument url of the last call, a string
    dl_file,      \* the file at dest_path: "absent", "old", "partial", "complete"
    dl_requests,  \* number of requests sent to the network
    dl_response,  \* the response of the last call: "none", "ok", "error"
    dl_raised,    \* the exception of the last call, "" if none
    dl_calls      \* number of calls

dlVars == << dpc, dl_url, dl_file, dl_requests, dl_response, dl_raised, dl_calls >>

(***************************************************************************)
(* State of the cells of notebook 03 that open the two-dimensional files.  *)
(***************************************************************************)
VARIABLES
    lpc,          \* the cell to run next: "open_f200w", "open_f150w"; "opened",
                  \* "aborted", "idle"
    grism,        \* 'G150C' or 'G150R'
    files_2d,     \* the arrays of extensions 1 to 4 of the file of each filter
    opened_2d,    \* the names data_2d, dq_2d, err_2d, wave_2d of the cells
    lraised       \* the exception that stopped the run, "" if none

loadVars == << lpc, grism, files_2d, opened_2d, lraised >>

vars == << peakVars, rowVars, prepVars, fetchVars, photVars, dlVars, loadVars >>

\* what the cells of one part of the notebooks leave alone
notPeakVars == << rowVars, prepVars, fetchVars, photVars, dlVars, loadVars >>

notRowVars == << peakVars, prepVars, fetchVars, photVars, dlVars, loadVars >>

notPrepVars == << peakVars, rowVars, fetchVars, photVars, dlVars, loadVars >>

notFetchVars == << peakVars, rowVars, prepVars, photVars, dlVars, loadVars >>

notPhotVars == << peakVars, rowVars, prepVars, fetchVars, dlVars, loadVars >>

notDlVars == << peakVars, rowVars, prepVars, fetchVars, photVars, loadVars >>

notLoadVars == << peakVars, rowVars, prepVars, fetchVars, photVars, dlVars >>

Unbound == 0 - 1

PeakStart ==
    /\ pc = "correlate"
    /\ obs_range \in ObsRanges
    /\ tmpl_range \in TemplateRanges
    /\ corr = << >>
    /\ lag = << >>
    /\ index_peak = Unbound
    /\ v = None
    /\ z = None
    /\ peak_lags = << >>
    /\ peak_vals = << >>
    /\ p = NoFit
    /\ roots = << >>
    /\ v_fit = None
    /\ printed = << >>
    /\ warned = {}
    /\ raised = ""
    /\ shown_z = None

IdlePeak ==
    /\ pc = "idle"
    /\ obs_range = <<0, 0>>
    /\ tmpl_range = <<0, 0>>
    /\ corr = << >>
    /\ lag = << >>
    /\ index_peak = Unbound
    /\ v = None
    /\ z = None
    /\ peak_lags = << >>
    /\ peak_vals = << >>
    /\ p = NoFit
    /\ roots = << >>
    /\ v_fit = None
    /\ printed = << >>
    /\ warned = {}
    /\ raised = ""
    /\ shown_z = None

\* corr, lag = correlation.template_correlate(p_obs, p_smooth_template):
\* the notebook calls the library whatever the two wavelength ranges are.
\* The library returns a curve; for ranges that do not overlap it may
\* instead fail with an error of its own.
Correlate ==
    /\ pc = "correlate"
    /\ \/ \E c \in Curves :
            /\ corr' = c
            /\ lag' = LagGrid(Len(c))
            /\ pc' = "peak_max"
            /\ raised' = raised
       \/ /\ ~Overlap(obs_range, tmpl_range)
          /\ raised' = "LibraryError"
          /\ pc' = "aborted"
          /\ UNCHANGED << corr, lag >>
    /\ UNCHANGED << obs_range, tmpl_range, index_peak, v, z, peak_lags, peak_vals,
                    p, roots, v_fit, printed, warned, shown_z >>
    /\ UNCHANGED notPeakVars

\* cell "Redshift based on maximum"
PeakMax ==
    /\ pc = "peak_max"
    /\ index_peak' = ArgMax(corr)
    /\ v' = Num(Rat(lag[index_peak' + 1], 1), <<0, 1>>, FALSE, 0)
    /\ z' = DivByC(v')
    /\ printed' = printed \o << <<"Peak maximum at: ", v'>>,
                                <<"Redshift from peak maximum: ", z'>> >>
    /\ pc' = "parabolic"
    /\ UNCHANGED << obs_range, tmpl_range, corr, lag, peak_lags, peak_vals, p, roots,
                    v_fit, warned, raised, shown_z >>
    /\ UNCHANGED notPeakVars

\* np.polyfit on fewer than three points is rank deficient: numpy warns
\* (RankWarning) and returns the minimum-norm solution in column-scaled
\* coordinates, which is irrational in general; here: any quadratic through
\* the points with a small integer leading (and, for one point, linear)
\* coefficient.
RankDeficientFits(xs, ys) ==
    IF Len(xs) = 1
    THEN { Quadratic(a0, b0, ys[1] - a0 * xs[1] * xs[1] - b0 * xs[1], 1) :
             a0 \in -1 .. 1, b0 \in -1 .. 1 }
    ELSE { LET dx == xs[2] - xs[1]
               b0 == (ys[2] - ys[1]) - a0 * dx * (xs[1] + xs[2])
           IN  Quadratic(a0 * dx, b0, ys[1] * dx - a0 * dx * xs[1] * xs[1] - b0 * xs[1], dx) :
             a0 \in -1 .. 1 }

\* cell "Redshift based on parabolic fit to maximum"
ParabolicFit ==
    /\ pc = "parabolic"
    /\ peak_lags' = PeakWindow(lag, index_peak)
    /\ peak_vals' = PeakWindow(corr, index_peak)
    /\ IF peak_lags' = << >>
       THEN \* np.polyfit: TypeError("expected non-empty vector for x")
            /\ raised' = "TypeError"
            /\ pc' = "aborted"
            /\ UNCHANGED << p, roots, v_fit, z, printed, warned >>
       ELSE /\ IF Len(peak_lags') < 3
               THEN p' \in RankDeficientFits(peak_lags', peak_vals')
               ELSE p' = PolyFit2(peak_lags', peak_vals')
            /\ roots' = Roots(p')
            /\ v_fit' = Mean(roots')
            /\ z' = DivByC(v_fit')
            /\ printed' = printed \o << <<"", None>>,
                                        <<"Parabolic fit with maximum at: ", v_fit'>>,
                                        <<"Redshift from parabolic fit: ", z'>> >>
            /\ warned' = warned
                         \cup (IF Len(peak_lags') < 3 THEN {"RankWarning"} ELSE {})
                         \cup (IF roots' = << >> THEN {"RuntimeWarning"} ELSE {})
            /\ pc' = "show"
            /\ raised' = raised
    /\ UNCHANGED << obs_range, tmpl_range, corr, lag, index_peak, v, shown_z >>
    /\ UNCHANGED notPeakVars

\* the final cell reading the discrete-maximum redshift v / c
ShowDiscrete ==
    /\ pc = "show"
    /\ printed' = Append(printed, <<"z =", DivByC(v)>>)
    /\ shown_z' = DivByC(v)
    /\ pc' = "done"
    /\ UNCHANGED << obs_range, tmpl_range, corr, lag, index_peak, v, z, peak_lags,
                    peak_vals, p, roots, v_fit, warned, raised >>
    /\ UNCHANGED notPeakVars

\* cell "How does it look?": print('z =', z) and the plot scaled by (1 + z)
Show ==
    /\ pc = "show"
    /\ printed' = Append(printed, <<"z =", z>>)
    /\ shown_z' = z
    /\ pc' = "done"
    /\ UNCHANGED << obs_range, tmpl_range, corr, lag, index_peak, v, z, peak_lags,
                    peak_vals, p, roots, v_fit, warned, raised >>
    /\ UNCHANGED notPeakVars

NextPeak == Correlate \/ PeakMax \/ ParabolicFit \/ Show

(***************************************************************************)
(* Notebook 03: initial states and the continuum loop.                     *)
(***************************************************************************)
NRows == Len(data_2d)

NoLineModel == [kind |-> "none", spectral_axis |-> << >>, flux |-> [kind |-> "none"],
                converged |-> FALSE]

\* the names the loops bind, before the loops run
RowTemporariesUnbound ==
    /\ yy = Unbound
    /\ mask_line = << >>
    /\ obs = NoSpectrum
    /\ cont = NoModel
    /\ rraised = ""
    /\ rsq = Unbound
    /\ cut_ha = << >>
    /\ line_2d = << >>
    /\ con = << >>
    /\ spectrum_cut = NoSpectrum
    /\ g123_fit = NoLineModel
    /\ cut_hb = << >>
    /\ cut_o3b = << >>
    /\ cut_o3r = << >>

IdleRows ==
    /\ filt = "none"
    /\ wave_2d = << >>
    /\ data_2d = << >>
    /\ flux_cont2d = << >>
    /\ rpc = "idle"
    /\ ppc = << >>
    /\ sched = "none"
    /\ RowTemporariesUnbound

\* the 2D file is loaded; the cell "Repeat this along y-axis" runs next
RowsStart ==
    /\ filt \in {"f200w", "f150w"}
    /\ \E img \in Images(filt) :
          /\ wave_2d = [r \in 1 .. Len(img) |-> img[r].wave]
          /\ data_2d = [r \in 1 .. Len(img) |-> img[r].data]
    /\ flux_cont2d = << >>
    /\ rpc = "cont_init"
    /\ ppc = << >>
    /\ sched = "none"
    /\ RowTemporariesUnbound

\* data_2d[:, :] * 0
ZerosLike(d) == [r \in 1 .. Len(d) |-> ZerosArr]

\* the loop statements, for the iteration of row r (1-based)
MaskStmt(r) == MaskLine(wave_2d[r], filt)

ObsStmt(r) ==
    Spectrum(BoolIndex(wave_2d[r], mask_line),
             Arr("data", BoolIndex(data_2d[r], mask_line), NoModel, << >>, 0))

\* flux_cont2d[yy, :] = cont(wave_2d[yy, :]*u.um).value
StoreStmtFirstRow(r) == [flux_cont2d EXCEPT ![1] = EvalModel(cont, wave_2d[r])]

StoreStmt(r) == [flux_cont2d EXCEPT ![r] = EvalModel(cont, wave_2d[r])]

ContInit ==
    /\ rpc = "cont_init"
    /\ flux_cont2d' = ZerosLike(data_2d)
    /\ yy' = 0
    /\ rpc' = "cont_mask"
    /\ UNCHANGED << filt, wave_2d, data_2d, mask_line, obs, cont, rraised, rsq, cut_ha,
                    line_2d, con, spectrum_cut, g123_fit, cut_hb, cut_o3b, cut_o3r,
                    ppc, sched >>
    /\ UNCHANGED notRowVars

ContMask ==
    /\ rpc = "cont_mask"
    /\ mask_line' = MaskStmt(yy + 1)
    /\ rpc' = "cont_obs"
    /\ UNCHANGED << filt, wave_2d, data_2d, flux_cont2d, yy, obs, cont, rraised, rsq,
                    cut_ha, line_2d, con, spectrum_cut, g123_fit, cut_hb, cut_o3b,
                    cut_o3r, ppc, sched >>
    /\ UNCHANGED notRowVars

ContObs ==
    /\ rpc = "cont_obs"
    /\ obs' = ObsStmt(yy + 1)
    /\ rpc' = "cont_fit"
    /\ UNCHANGED << filt, wave_2d, data_2d, flux_cont2d, yy, mask_line, cont, rraised,
                    rsq, cut_ha, line_2d, con, spectrum_cut, g123_fit, cut_hb, cut_o3b,
                    cut_o3r, ppc, sched >>
    /\ UNCHANGED notRowVars

\* the fit has no guard on the number of samples and no try/except around it
ContFit ==
    /\ rpc = "cont_fit"
    /\ \E out \in FitOutcomes(obs) :
          IF out = "model"
          THEN /\ cont' = FitContinuum(obs)
               /\ rpc' = "cont_store"
               /\ rraised' = rraised
          ELSE /\ rraised' = "FitterError"
               /\ rpc' = "aborted"
               /\ cont' = cont
    /\ UNCHANGED << filt, wave_2d, data_2d, flux_cont2d, yy, mask_line, obs, rsq,
                    cut_ha, line_2d, con, spectrum_cut, g123_fit, cut_hb, cut_o3b,
                    cut_o3r, ppc, sched >>
    /\ UNCHANGED notRowVars

ContStore ==
    /\ rpc = "cont_store"
    /\ flux_cont2d' = StoreStmt(yy + 1)
    /\ IF yy + 1 < NRows
       THEN /\ yy' = yy + 1
            /\ rpc' = "cont_mask"
       ELSE /\ yy' = yy
            /\ rpc' = IF filt = "f200w" THEN "cut_ha_init" ELSE "line_2d"
    /\ UNCHANGED << filt, wave_2d, data_2d, mask_line, obs, cont, rraised, rsq, cut_ha,
                    line_2d, con, spectrum_cut, g123_fit, cut_hb, cut_o3b, cut_o3r,
                    ppc, sched >>
    /\ UNCHANGED notRowVars

(***************************************************************************)
(* The emission-line cutouts.                                              *)
(***************************************************************************)
\* line centres lamcen = rest wavelength * (1 + zin), zin = 2.1, in units of
\* 1e-8 um: 0.6564 * 3.1, 0.4862680 * 3.1, 0.4960295 * 3.1, 0.5008240 * 3.1
LamcenHa == 203484000

LamcenHb == 150743080

LamcenO3b == 153769145

LamcenO3r == 155255440

\* fit_lines(spectrum_cut, g1_init+g2_init+g3_init): three Gaussians, nine
\* free parameters
NLineParams == 9

\* np.argmin(np.abs(lamcen - w)): the first index of the nearest wavelength
ArgMinDist(lamcen, w) ==
    LET d(j) == Abs(lamcen - 100000 * w[j + 1])
    IN  CHOOSE i \in 0 .. Len(w) - 1 :
            /\ \A j \in 0 .. Len(w) - 1 : d(i) <= d(j)
            /\ \A j \in 0 .. i - 1 : d(i) < d(j)

\* int(k / 2.): truncation towards zero
TruncHalf(k) == IF k >= 0 THEN k \div 2 ELSE -((-k) \div 2)

\* int(index_lamcen - rsq/2.) : int(index_lamcen + rsq/2.)
CutBounds(idx, size) == << TruncHalf(2 * idx - size), TruncHalf(2 * idx + size) >>

\* the number of elements of a[lo:hi] for a of length len
SliceLen(len, lo, hi) ==
    LET b == PySliceBounds(len, lo, hi) IN Max2(b[2] - b[1], 0)

\* arr[lo:hi]
ArrSlice(arr, lo, hi) ==
    [arr EXCEPT !.data = PySlice(@, lo, hi), !.at = PySlice(@, lo, hi)]

\* a one-element array broadcast to size elements
ArrBroadcast(arr, size) ==
    [arr EXCEPT !.data = IF @ = << >> THEN << >> ELSE [k \in 1 .. size |-> @[1]],
                !.at = IF @ = << >> THEN << >> ELSE [k \in 1 .. size |-> @[1]]]

\* target[yy, :] = src for a target row of size elements and a source of k
\* elements: numpy assigns when k = size, broadcasts when k = 1 and raises
\* ValueError otherwise
Assignable(k, size) == k = size \/ k = 1

RowAssign(target, r, src, k, size) ==
    [target EXCEPT ![r] = IF k = size THEN src ELSE ArrBroadcast(src, size)]

\* (data_2d - flux_cont2d)[yy, :]
DiffRow(r) == Arr("diff", data_2d[r], flux_cont2d[r].model, flux_cont2d[r].at, 0)

\* cell "Cutout Ha line map" (F200W)
CutHaInit ==
    /\ rpc = "cut_ha_init"
    /\ rsq' = NRows
    /\ cut_ha' = ZerosLike(data_2d)
    /\ yy' = 0
    /\ rpc' = "cut_ha_row"
    /\ UNCHANGED << filt, wave_2d, data_2d, flux_cont2d, mask_line, obs, cont, rraised,
                    line_2d, con, spectrum_cut, g123_fit, cut_hb, cut_o3b, cut_o3r,
                    ppc, sched >>
    /\ UNCHANGED notRowVars

CutHaRow ==
    /\ rpc = "cut_ha_row"
    /\ LET b == CutBounds(ArgMinDist(LamcenHa, wave_2d[yy + 1]), rsq)
           k == SliceLen(NCols, b[1], b[2])
       IN  IF Assignable(k, rsq)
           THEN /\ cut_ha' = RowAssign(cut_ha, yy + 1, ArrSlice(DiffRow(yy + 1), b[1], b[2]),
                                       k, rsq)
                /\ rraised' = rraised
                /\ IF yy + 1 < NRows
                   THEN yy' = yy + 1 /\ rpc' = "cut_ha_row"
                   ELSE yy' = yy /\ rpc' = "end"
           ELSE /\ rraised' = "ValueError"
                /\ rpc' = "aborted"
                /\ UNCHANGED << cut_ha, yy >>
    /\ UNCHANGED << filt, wave_2d, data_2d, flux_cont2d, mask_line, obs, cont, rsq,
                    line_2d, con, spectrum_cut, g123_fit, cut_hb, cut_o3b, cut_o3r,
                    ppc, sched >>
    /\ UNCHANGED notRowVars

\* line_2d = data_2d[:, :] - flux_cont2d_150[:, :]
Line2d ==
    /\ rpc = "line_2d"
    /\ line_2d' = [r \in 1 .. NRows |-> DiffRow(r)]
    /\ rpc' = "fit_init"
    /\ UNCHANGED << filt, wave_2d, data_2d, flux_cont2d, yy, mask_line, obs, cont,
                    rraised, rsq, cut_ha, con, spectrum_cut, g123_fit, cut_hb, cut_o3b,
                    cut_o3r, ppc, sched >>
    /\ UNCHANGED notRowVars

\* cell "Cutout Hb, Oiii line maps" (F150W)
FitInit ==
    /\ rpc = "fit_init"
    /\ rsq' = NRows
    /\ cut_hb' = ZerosLike(data_2d)
    /\ cut_o3b' = ZerosLike(data_2d)
    /\ cut_o3r' = ZerosLike(data_2d)
    /\ yy' = 0
    /\ rpc' = "fit_con"
    /\ UNCHANGED << filt, wave_2d, data_2d, flux_cont2d, mask_line, obs, cont, rraised,
                    cut_ha, line_2d, con, spectrum_cut, g123_fit, ppc, sched >>
    /\ UNCHANGED notRowVars

\* con = (1.4 < w) & (w < 1.65); spectrum_cut = Spectrum(line_2d[yy, :][con], ...)
FitCon ==
    /\ rpc = "fit_con"
    /\ con' = [j \in 1 .. NCols |-> 1400 < wave_2d[yy + 1][j] /\ wave_2d[yy + 1][j] < 1650]
    /\ spectrum_cut' =
          Spectrum(BoolIndex(wave_2d[yy + 1], con'),
                   [line_2d[yy + 1] EXCEPT
                       !.data = BoolIndex(@, con'),
                       !.at = IF @ = << >> THEN << >> ELSE BoolIndex(@, con')])
    /\ rpc' = "fit_lines"
    /\ UNCHANGED << filt, wave_2d, data_2d, flux_cont2d, yy, mask_line, obs, cont,
                    rraised, rsq, cut_ha, line_2d, g123_fit, cut_hb, cut_o3b, cut_o3r,
                    ppc, sched >>
    /\ UNCHANGED notRowVars

\* outcomes of fit_lines: a fitted compound model, converged or not (the
\* notebook's summary: the fit fails away from the central rows), or, with
\* fewer samples than free parameters, possibly an error of the fitter
LineFitOutcomes(sc) ==
    {"converged", "not_converged"} \cup
    (IF Len(sc.spectral_axis) < NLineParams THEN {"raise"} ELSE {})

\* g123_fit = fit_lines(...): no try/except around it
FitLines ==
    /\ rpc = "fit_lines"
    /\ \E out \in LineFitOutcomes(spectrum_cut) :
          IF out = "raise"
          THEN /\ rraised' = "FitterError"
               /\ rpc' = "aborted"
               /\ g123_fit' = g123_fit
          ELSE /\ g123_fit' = [kind |-> "gauss3",
                               spectral_axis |-> spectrum_cut.spectral_axis,
                               flux |-> spectrum_cut.flux,
                               converged |-> (out = "converged")]
               /\ rpc' = "fit_cut_hb"
               /\ rraised' = rraised
    /\ UNCHANGED << filt, wave_2d, data_2d, flux_cont2d, yy, mask_line, obs, cont, rsq,
                    cut_ha, line_2d, con, spectrum_cut, cut_hb, cut_o3b, cut_o3r,
                    ppc, sched >>
    /\ UNCHANGED notRowVars

\* g123_fit[comp - 1](wave_2d[yy, :]*u.um)[lo:hi]
LineCut(comp, r, lo, hi) == Arr("eval", << >>, g123_fit, PySlice(wave_2d[r], lo, hi), comp)

\* cut_hb[yy, :] = g123_fit[0](wave_2d[yy, :]*u.um)[...]
FitCutHb ==
    /\ rpc = "fit_cut_hb"
    /\ LET b == CutBounds(ArgMinDist(LamcenHb, wave_2d[yy + 1]), rsq)
           k == SliceLen(NCols, b[1], b[2])
       IN  IF Assignable(k, rsq)
           THEN /\ cut_hb' = RowAssign(cut_hb, yy + 1, LineCut(1, yy + 1, b[1], b[2]), k, rsq)
                /\ rpc' = "fit_cut_o3b"
                /\ rraised' = rraised
           ELSE /\ rraised' = "ValueError"
                /\ rpc' = "aborted"
                /\ cut_hb' = cut_hb
    /\ UNCHANGED << filt, wave_2d, data_2d, flux_cont2d, yy, mask_line, obs, cont, rsq,
                    cut_ha, line_2d, con, spectrum_cut, g123_fit, cut_o3b, cut_o3r,
                    ppc, sched >>
    /\ UNCHANGED notRowVars

\* cut_o3b[yy, :] = g123_fit[1](wave_2d[yy, :]*u.um)[...]
FitCutO3b ==
    /\ rpc = "fit_cut_o3b"
    /\ LET b == CutBounds(ArgMinDist(LamcenO3b, wave_2d[yy + 1]), rsq)
           k == SliceLen(NCols, b[1], b[2])
       IN  IF Assignable(k, rsq)
           THEN /\ cut_o3b' = RowAssign(cut_o3b, yy + 1, LineCut(2, yy + 1, b[1], b[2]), k, rsq)
                /\ rpc' = "fit_cut_o3r"
                /\ rraised' = rraised
           ELSE /\ rraised' = "ValueError"
                /\ rpc' = "aborted"
                /\ cut_o3b' = cut_o3b
    /\ UNCHANGED << filt, wave_2d, data_2d, flux_cont2d, yy, mask_line, obs, cont, rsq,
                    cut_ha, line_2d, con, spectrum_cut, g123_fit, cut_hb, cut_o3r,
                    ppc, sched >>
    /\ UNCHANGED notRowVars

\* cut_o3r[yy, :] = g123_fit[2](wave_2d[yy, :]*u.um)[...], then the next row
FitCutO3r ==
    /\ rpc = "fit_cut_o3r"
    /\ LET b == CutBounds(ArgMinDist(LamcenO3r, wave_2d[yy + 1]), rsq)
           k == SliceLen(NCols, b[1], b[2])
       IN  IF Assignable(k, rsq)
           THEN /\ cut_o3r' = RowAssign(cut_o3r, yy + 1, LineCut(3, yy + 1, b[1], b[2]), k, rsq)
                /\ rraised' = rraised
                /\ IF yy + 1 < NRows
                   THEN yy' = yy + 1 /\ rpc' = "fit_con"
                   ELSE yy' = yy /\ rpc' = "end"
           ELSE /\ rraised' = "ValueError"
                /\ rpc' = "aborted"
                /\ UNCHANGED << cut_o3r, yy >>
    /\ UNCHANGED << filt, wave_2d, data_2d, flux_cont2d, mask_line, obs, cont, rsq,
                    cut_ha, line_2d, con, spectrum_cut, g123_fit, cut_hb, cut_o3b,
                    ppc, sched >>
    /\ UNCHANGED notRowVars

NextRows ==
    \/ ContInit \/ ContMask \/ ContObs \/ ContFit \/ ContStore
    \/ CutHaInit \/ CutHaRow
    \/ Line2d \/ FitInit \/ FitCon \/ FitLines \/ FitCutHb \/ FitCutO3b \/ FitCutO3r

(***************************************************************************)
(* The continuum loop with its iterations run as processes that share the  *)
(* notebook's globals mask_line, obs and cont: in any order, one whole      *)
(* iteration at a time ("any_order"), or interleaved statement by          *)
(* statement ("interleaved").  flux_cont2d = data_2d * 0 has run.          *)
(***************************************************************************)
RowsParStart ==
    /\ filt \in {"f200w", "f150w"}
    /\ \E img \in Images(filt) :
          /\ wave_2d = [r \in 1 .. Len(img) |-> img[r].wave]
          /\ data_2d = [r \in 1 .. Len(img) |-> img[r].data]
    /\ flux_cont2d = ZerosLike(data_2d)
    /\ rpc = "par"
    /\ ppc = [r \in 1 .. Len(data_2d) |-> "mask"]
    /\ sched \in {"any_order", "interleaved"}
    /\ RowTemporariesUnbound

\* iteration r may run its next statement
MayRun(r) ==
    /\ rpc = "par"
    /\ r \in 1 .. NRows
    /\ sched = "any_order" =>
          \A q \in (1 .. NRows) \ {r} : ppc[q] \in {"mask", "done", "raised"}

ParMask(r) ==
    /\ MayRun(r)
    /\ ppc[r] = "mask"
    /\ mask_line' = MaskStmt(r)
    /\ ppc' = [ppc EXCEPT ![r] = "obs"]
    /\ UNCHANGED << filt, wave_2d, data_2d, flux_cont2d, yy, obs, cont, rpc, rraised,
                    rsq, cut_ha, line_2d, con, spectrum_cut, g123_fit, cut_hb, cut_o3b,
                    cut_o3r, sched >>
    /\ UNCHANGED notRowVars

ParObs(r) ==
    /\ MayRun(r)
    /\ ppc[r] = "obs"
    /\ obs' = ObsStmt(r)
    /\ ppc' = [ppc EXCEPT ![r] = "fit"]
    /\ UNCHANGED << filt, wave_2d, data_2d, flux_cont2d, yy, mask_line, cont, rpc,
                    rraised, rsq, cut_ha, line_2d, con, spectrum_cut, g123_fit, cut_hb,
                    cut_o3b, cut_o3r, sched >>
    /\ UNCHANGED notRowVars

ParFit(r) ==
    /\ MayRun(r)
    /\ ppc[r] = "fit"
    /\ \E out \in FitOutcomes(obs) :
          IF out = "model"
          THEN /\ cont' = FitContinuum(obs)
               /\ ppc' = [ppc EXCEPT ![r] = "store"]
          ELSE /\ cont' = cont
               /\ ppc' = [ppc EXCEPT ![r] = "raised"]
    /\ UNCHANGED << filt, wave_2d, data_2d, flux_cont2d, yy, mask_line, obs, rpc,
                    rraised, rsq, cut_ha, line_2d, con, spectrum_cut, g123_fit, cut_hb,
                    cut_o3b, cut_o3r, sched >>
    /\ UNCHANGED notRowVars

ParStore(r) ==
    /\ MayRun(r)
    /\ ppc[r] = "store"
    /\ flux_cont2d' = StoreStmt(r)
    /\ ppc' = [ppc EXCEPT ![r] = "done"]
    /\ UNCHANGED << filt, wave_2d, data_2d, yy, mask_line, obs, cont, rpc, rraised,
                    rsq, cut_ha, line_2d, con, spectrum_cut, g123_fit, cut_hb, cut_o3b,
                    cut_o3r, sched >>
    /\ UNCHANGED notRowVars

NextRowsPar ==
    \E r \in 1 .. MaxRows : ParMask(r) \/ ParObs(r) \/ ParFit(r) \/ ParStore(r)

(***************************************************************************)
(* Notebook 02: the observed spectrum.  Wavelengths in nm; a flux sample   *)
(* is the number 100 * (filter number) + (sample number), so that a sample *)
(* can be told from every other; flux errors and weights are fractions     *)
(* <<num, den>> extended by inf = <<1, 0>> and nan = <<0, 0>>.             *)
(***************************************************************************)
Filters == {"f115w", "f150w", "f200w"}

FilterNumber(f) == IF f = "f115w" THEN 1 ELSE IF f = "f150w" THEN 2 ELSE 3

Inf == <<1, 0>>

NaNQ == <<0, 0>>

\* mask_115, mask_150, mask_200: the samples kept for the correlation
KeepRange(f) ==
    IF f = "f200w" THEN <<1750, 2230>>
    ELSE IF f = "f150w" THEN <<1350, 1650>>
    ELSE <<1020, 1250>>

\* no sample masked out
FilterMaskAll(w, f) == [j \in 1 .. Len(w) |-> TRUE]

\* (wave > lo) & (wave < hi)
FilterMask(w, f) ==
    [j \in 1 .. Len(w) |-> KeepRange(f)[1] < w[j] /\ w[j] < KeepRange(f)[2]]

\* the wavelength arrays of the 1D spectra: strictly ascending, the raw
\* ranges of neighbouring filters overlap
FilterWaves(f) ==
    IF f = "f200w" THEN { WaveRamp(1760, 20), WaveRamp(1700, 60) }
    ELSE IF f = "f150w" THEN { WaveRamp(1360, 10), WaveRamp(1300, 50) }
    ELSE { WaveRamp(1055, 8), WaveRamp(1030, 25) }

FilterFlux(f) == [j \in 1 .. NCols |-> 100 * FilterNumber(f) + j]

\* flux errors: all positive, or with zero, infinite, nan and negative values
FilterErrs ==
    { [j \in 1 .. NCols |-> <<1, 1>>],
      [j \in 1 .. NCols |->
          IF j % 5 = 1 THEN <<0, 1>> ELSE IF j % 5 = 2 THEN Inf
          ELSE IF j % 5 = 3 THEN NaNQ ELSE IF j % 5 = 4 THEN <<0 - 1, 1>> ELSE <<1, 2>>] }

UnboundArr == Arr("unbound", << >>, NoModel, << >>, 0)

\* arr[m] for a boolean mask m
ArrIndex(arr, m) ==
    [arr EXCEPT !.data = BoolIndex(@, m),
                !.at = IF @ = << >> THEN << >> ELSE BoolIndex(@, m)]

\* the values of an array, sample by sample: the datum, and the model
\* subtracted from it with the wavelength it was evaluated at
Samples(arr) ==
    [j \in 1 .. Len(arr.data) |->
        [datum |-> arr.data[j], model |-> arr.model, at |-> arr.at[j]]]

\* 1 / e**2
Weight(e) ==
    IF e = NaNQ THEN NaNQ
    ELSE IF e[2] = 0 THEN <<0, 1>>
    ELSE IF e[1] = 0 THEN Inf
    ELSE Rat(e[2] * e[2], e[1] * e[1])

\* x > 0. (False for nan)
Positive(x) == x # NaNQ /\ x[1] > 0

StrictlyMonotonic(a) ==
    \/ \A j \in 1 .. Len(a) - 1 : a[j] < a[j + 1]
    \/ \A j \in 1 .. Len(a) - 1 : a[j] > a[j + 1]

NoPObs == [spectral_axis |-> << >>, flux |-> << >>, uncertainty |-> << >>]

ObsPrepUnbound ==
    /\ qraised = ""
    /\ mask = << >>
    /\ obs_f = [f \in Filters |-> NoSpectrum]
    /\ continuum_f = [f \in Filters |-> NoModel]
    /\ flux_sub_f = [f \in Filters |-> UnboundArr]
    /\ mask_f = [f \in Filters |-> << >>]
    /\ wave_obs = << >>
    /\ flux_obs = << >>
    /\ flux_err_obs = << >>
    /\ wht_obs = << >>
    /\ dataspec_sub = << >>
    /\ p_obs = NoPObs

\* the 1D spectra are loaded; the cell "F200W" runs next
ObsPrepStart ==
    /\ qpc = "f200w"
    /\ wave_f \in [Filters -> UNION { FilterWaves(f) : f \in Filters }]
    /\ \A f \in Filters : wave_f[f] \in FilterWaves(f)
    /\ flux_f = [f \in Filters |-> FilterFlux(f)]
    /\ flux_err_f \in [Filters -> FilterErrs]
    /\ ObsPrepUnbound

\* the cell after the continuum cell of filter f
AfterCell(f) == IF f = "f200w" THEN "f150w" ELSE IF f = "f150w" THEN "f115w" ELSE "concat"

\* cells "# F200W", "# F150W" and the cell of F115W: mask, obs_*, continuum_*,
\* flux_*_sub, mask_*
ContinuumCell(f) ==
    /\ qpc = f
    /\ f \in Filters
    /\ mask' = MaskLine(wave_f[f], f)
    /\ obs_f' = [obs_f EXCEPT ![f] =
                    Spectrum(BoolIndex(wave_f[f], mask'),
                             Arr("data", BoolIndex(flux_f[f], mask'), NoModel, << >>, 0))]
    /\ \E out \in FitOutcomes(obs_f'[f]) :
          IF out = "model"
          THEN /\ continuum_f' = [continuum_f EXCEPT ![f] = FitContinuum(obs_f'[f])]
               /\ LET c == EvalModel(continuum_f'[f], wave_f[f])
                  IN  flux_sub_f' = [flux_sub_f EXCEPT ![f] =
                                        Arr("diff", flux_f[f], c.model, c.at, 0)]
               /\ mask_f' = [mask_f EXCEPT ![f] = FilterMask(wave_f[f], f)]
               /\ qpc' = AfterCell(f)
               /\ qraised' = qraised
          ELSE /\ qraised' = "FitterError"
               /\ qpc' = "aborted"
               /\ UNCHANGED << continuum_f, flux_sub_f, mask_f >>
    /\ UNCHANGED << wave_f, flux_f, flux_err_f, wave_obs, flux_obs, flux_err_obs, wht_obs,
                    dataspec_sub, p_obs, h5file, content, heap, flux_all, wave_all, flux,
                    wave, wave_bin, flux_bin, template, continuum_model, p_template,
                    p_smooth_template >>
    /\ UNCHANGED << z_rec, lag_step, shown_axis >>
    /\ UNCHANGED notPrepVars

\* np.concatenate([a_115[mask_115], a_150[mask_150], a_200[mask_200]])
Concat3(a115, a150, a200) == a115 \o a150 \o a200

\* cell "# Concatenate arrays"
Concatenate ==
    /\ qpc = "concat"
    /\ wave_obs' = Concat3(BoolIndex(wave_f["f115w"], mask_f["f115w"]),
                           BoolIndex(wave_f["f150w"], mask_f["f150w"]),
                           BoolIndex(wave_f["f200w"], mask_f["f200w"]))
    /\ flux_obs' = Concat3(Samples(ArrIndex(flux_sub_f["f115w"], mask_f["f115w"])),
                           Samples(ArrIndex(flux_sub_f["f150w"], mask_f["f150w"])),
                           Samples(ArrIndex(flux_sub_f["f200w"], mask_f["f200w"])))
    /\ flux_err_obs' = Concat3(BoolIndex(flux_err_f["f115w"], mask_f["f115w"]),
                               BoolIndex(flux_err_f["f150w"], mask_f["f150w"]),
                               BoolIndex(flux_err_f["f200w"], mask_f["f200w"]))
    /\ qpc' = "p_obs"
    /\ UNCHANGED << qraised, wave_f, flux_f, flux_err_f, mask, obs_f, continuum_f,
                    flux_sub_f, mask_f, wht_obs, dataspec_sub, p_obs, h5file, content,
                    heap, flux_all, wave_all, flux, wave, wave_bin, flux_bin, template,
                    continuum_model, p_template, p_smooth_template >>
    /\ UNCHANGED << z_rec, lag_step, shown_axis >>
    /\ UNCHANGED notPrepVars

\* dataspec[dataspec['weight'] > 0.]: the rows of the table with a positive
\* weight, in order
RECURSIVE PositiveWeightRows(_)
PositiveWeightRows(rows) ==
    IF rows = << >> THEN << >>
    ELSE (IF Positive(Head(rows).weight) THEN << Head(rows) >> ELSE << >>)
         \o PositiveWeightRows(Tail(rows))

\* cell "wht_obs = 1 / flux_err_obs**2 ... p_obs = Spectrum(...)"; Spectrum
\* rejects a spectral axis that is not strictly monotonic
MakePObs ==
    /\ qpc = "p_obs"
    /\ wht_obs' = [k \in 1 .. Len(flux_err_obs) |-> Weight(flux_err_obs[k])]
    /\ dataspec_sub' =
          PositiveWeightRows([k \in 1 .. Len(wave_obs) |->
              [wavelength |-> wave_obs[k], flux |-> flux_obs[k],
               weight |-> wht_obs'[k], uncertainty |-> flux_err_obs[k]]])
    /\ LET col(name) == [k \in 1 .. Len(dataspec_sub') |-> dataspec_sub'[k][name]]
       IN  IF StrictlyMonotonic(col("wavelength"))
           THEN /\ p_obs' = [spectral_axis |-> col("wavelength"), flux |-> col("flux"),
                             uncertainty |-> col("uncertainty")]
                /\ qpc' = "read_hdf5"
                /\ qraised' = qraised
           ELSE /\ qraised' = "ValueError"
                /\ qpc' = "aborted"
                /\ p_obs' = p_obs
    /\ UNCHANGED << wave_f, flux_f, flux_err_f, mask, obs_f, continuum_f, flux_sub_f,
                    mask_f, wave_obs, flux_obs, flux_err_obs, h5file, content, heap,
                    flux_all, wave_all, flux, wave, wave_bin, flux_bin, template,
                    continuum_model, p_template, p_smooth_template >>
    /\ UNCHANGED << z_rec, lag_step, shown_axis >>
    /\ UNCHANGED notPrepVars

(***************************************************************************)
(* Notebook 02: the template.  A string is a sequence of characters, a     *)
(* dataset key a sequence of decimal digits; template wavelengths and      *)
(* fluxes are fractions.                                                   *)
(***************************************************************************)
\* the largest absolute value of a sample of a continuum-subtracted template
MaxResid == 2

Chars(str) ==
    CASE str = "micron" -> <<"m", "i", "c", "r", "o", "n">>
      [] str = "microns" -> <<"m", "i", "c", "r", "o", "n", "s">>
      [] str = "Microns" -> <<"M", "i", "c", "r", "o", "n", "s">>
      [] str = "angstroms" -> <<"a", "n", "g", "s", "t", "r", "o", "m", "s">>
      [] str = "ANGSTROMS" -> <<"A", "N", "G", "S", "T", "R", "O", "M", "S">>
      [] str = "nanometers" -> <<"n", "a", "n", "o", "m", "e", "t", "e", "r", "s">>
      [] str = "um" -> <<"u", "m">>
      [] OTHER -> << >>

\* str.lower(), character by character
LowerChar(ch) ==
    CASE ch = "A" -> "a" [] ch = "G" -> "g" [] ch = "M" -> "m" [] ch = "N" -> "n"
      [] ch = "O" -> "o" [] ch = "R" -> "r" [] ch = "S" -> "s" [] ch = "T" -> "t"
      [] OTHER -> ch

Lower(str) == [k \in 1 .. Len(str) |-> LowerChar(str[k])]

\* the unit string read_hdf5 computes for a dataset: the attribute, 'micron'
\* without one, the last character dropped from the three plural spellings
WaveUnitsString(dataset) ==
    LET wave_units_string == IF dataset.has_units THEN dataset.units ELSE Chars("micron")
    IN  IF Lower(wave_units_string) \in {Chars("microns"), Chars("angstroms"),
                                          Chars("nanometers")}
        THEN SubSeq(wave_units_string, 1, Len(wave_units_string) - 1)
        ELSE wave_units_string

\* int(key)
RECURSIVE IntOfKey(_)
IntOfKey(key) ==
    IF key = << >> THEN 0 ELSE 10 * IntOfKey(SubSeq(key, 1, Len(key) - 1)) + key[Len(key)]

Ints(a) == [j \in 1 .. Len(a) |-> <<a[j], 1>>]

\* observed-frame wavelengths in um of the file: 3000, 4000, 6500, 9000 and
\* 14000 Angstrom at z = 0; and a grid that ends below 3600 Angstrom
TemplateWaves == << Rat(93, 100), Rat(31, 25), Rat(403, 200), Rat(279, 100), Rat(217, 50) >>

BlueWaves == << Rat(31, 100), Rat(62, 100), Rat(93, 100) >>

Dataset(key, has_units, units, waves, fluxes) ==
    [key |-> key, has_units |-> has_units, units |-> units, rows |-> << waves, fluxes >>]

\* the template files: the datasets in the order of file_obj.keys()
TemplateFiles ==
    { << Dataset(<<1, 0, 7, 0, 9>>, FALSE, << >>, TemplateWaves, Ints(<<1, 4, 2, 3, 9>>)) >>,
      << Dataset(<<1, 0, 7, 0, 9>>, TRUE, Chars("ANGSTROMS"), TemplateWaves,
                 Ints(<<5, 0, 0, 0, 2>>)),
         Dataset(<<7>>, TRUE, Chars("Microns"), TemplateWaves, Ints(<<1, 1, 1, 1, 1>>)) >>,
      << Dataset(<<0, 0, 7>>, TRUE, Chars("nanometers"), TemplateWaves,
                 Ints(<<1, 2, 3, 4, 5>>)),
         Dataset(<<7>>, TRUE, Chars("um"), BlueWaves, Ints(<<1, 2, 3>>)) >>,
      << Dataset(<<1, 0, 7, 0, 9>>, TRUE, Chars("microns"), BlueWaves, Ints(<<3, 2, 1>>)) >> }

\* arithmetic of the array elements
IsNaN(x) == x = NaNQ

RatMul(x, y) == Rat(x[1] * y[1], x[2] * y[2])

RatLess(x, y) == x[1] * y[2] < y[1] * x[2]

\* x / m element of a division of arrays: nan and inf as numpy produces them
QDiv(x, m) ==
    IF IsNaN(x) \/ IsNaN(m) THEN NaNQ
    ELSE IF m[1] = 0 THEN (IF x[1] = 0 THEN NaNQ ELSE << Sign(x[1]), 0 >>)
    ELSE IF x[2] = 0 THEN << Sign(x[1]) * Sign(m[1]), 0 >>
    ELSE Rat(x[1] * m[2], x[2] * m[1])

\* a.max() of a non-empty array: nan if any element is nan
QMax(a) ==
    IF \E j \in 1 .. Len(a) : IsNaN(a[j]) THEN NaNQ
    ELSE CHOOSE x \in { a[j] : j \in 1 .. Len(a) } :
            \A j \in 1 .. Len(a) : ~RatLess(x, a[j])

\* a.max() taken as the largest absolute value
QMaxAbs(a) ==
    IF \E j \in 1 .. Len(a) : IsNaN(a[j]) THEN NaNQ
    ELSE LET abs(x) == << Abs(x[1]), x[2] >>
         IN  CHOOSE x \in { abs(a[j]) : j \in 1 .. Len(a) } :
                \A j \in 1 .. Len(a) : ~RatLess(x, abs(a[j]))

\* a / a.max()
DivByMax(a) == [j \in 1 .. Len(a) |-> QDiv(a[j], QMax(a))]

NoRef == 0

\* a new array on the heap: the heap and the reference to the new array
NewArray(h, values) == [heap |-> Append(h, values), ref |-> Len(h) + 1]

\* a[m] with a boolean mask m is a copy of the selected elements
MaskedView(h, src, m) == [heap |-> h, ref |-> src]

MaskedCopy(h, src, m) == NewArray(h, BoolIndex(h[src], m))

NoTemplate == [spectral_axis |-> << >>, flux |-> << >>]

TemplatePrepUnbound ==
    /\ content = << >>
    /\ heap = << >>
    /\ flux_all = NoRef
    /\ wave_all = NoRef
    /\ flux = NoRef
    /\ wave = NoRef
    /\ wave_bin = NoRef
    /\ flux_bin = NoRef
    /\ template = NoTemplate
    /\ continuum_model = NoModel
    /\ p_template = NoTemplate
    /\ p_smooth_template = NoTemplate
    /\ z_rec = NaNQ
    /\ lag_step = NaNQ
    /\ shown_axis = << >>

\* read_hdf5: one entry per dataset, under int(key); the unit string it
\* computes is a local that no entry receives
RECURSIVE ReadDatasets(_, _)
ReadDatasets(datasets, acc) ==
    IF datasets = << >> THEN acc
    ELSE LET dataset == Head(datasets)
             waves == NewArray(acc.heap, dataset.rows[1])
             fluxes == NewArray(waves.heap, dataset.rows[2])
             key == IntOfKey(dataset.key)
             entry == [wavelengths |-> waves.ref, fluxes |-> fluxes.ref]
         IN  ReadDatasets(Tail(datasets),
                 [heap |-> fluxes.heap,
                  contents |-> [k \in DOMAIN acc.contents \cup {key} |->
                                   IF k = key THEN entry ELSE acc.contents[k]]])

read_hdf5(file_obj) == ReadDatasets(file_obj, [heap |-> << >>, contents |-> << >>])

\* cell "# Template file;": content = read_hdf5(file_temp)
ReadTemplate ==
    /\ qpc = "read_hdf5"
    /\ content' = read_hdf5(h5file).contents
    /\ heap' = read_hdf5(h5file).heap
    /\ qpc' = "deredshift"
    /\ UNCHANGED << qraised, wave_f, flux_f, flux_err_f, mask, obs_f, continuum_f,
                    flux_sub_f, mask_f, wave_obs, flux_obs, flux_err_obs, wht_obs,
                    dataspec_sub, p_obs, h5file, flux_all, wave_all, flux, wave, wave_bin,
                    flux_bin, template, continuum_model, p_template, p_smooth_template >>
    /\ UNCHANGED << z_rec, lag_step, shown_axis >>
    /\ UNCHANGED notPrepVars

\* iix = 10709; 1 + z_input = 3.1
iix == 10709

OnePlusZInput == Rat(31, 10)

\* cell "blueshift it to z=0": flux_all names the array of the entry,
\* wave_all is a new array, wavelengths / (1. + z_input) * 1e4
Deredshift ==
    /\ qpc = "deredshift"
    /\ IF iix \in DOMAIN content
       THEN /\ flux_all' = content[iix].fluxes
            /\ LET w == heap[content[iix].wavelengths]
                   made == NewArray(heap, [j \in 1 .. Len(w) |->
                               RatMul(QDiv(w[j], OnePlusZInput), <<10000, 1>>)])
               IN  /\ heap' = made.heap
                   /\ wave_all' = made.ref
            /\ qpc' = "cut"
            /\ qraised' = qraised
       ELSE /\ qraised' = "KeyError"
            /\ qpc' = "aborted"
            /\ UNCHANGED << flux_all, wave_all, heap >>
    /\ UNCHANGED << wave_f, flux_f, flux_err_f, mask, obs_f, continuum_f, flux_sub_f,
                    mask_f, wave_obs, flux_obs, flux_err_obs, wht_obs, dataspec_sub, p_obs,
                    h5file, content, flux, wave, wave_bin, flux_bin, template,
                    continuum_model, p_template, p_smooth_template >>
    /\ UNCHANGED << z_rec, lag_step, shown_axis >>
    /\ UNCHANGED notPrepVars

\* cell "# Cut templates for better fit.": flux and wave are new arrays,
\* divided and multiplied in place; flux.max() of an empty array raises
CutTemplate ==
    /\ qpc = "cut"
    /\ LET wa == heap[wave_all]
           con_tmp == [j \in 1 .. Len(wa) |->
                          RatLess(<<3600, 1>>, wa[j]) /\ RatLess(wa[j], <<13000, 1>>)]
           fl == MaskedCopy(heap, flux_all, con_tmp)
           wv == MaskedCopy(fl.heap, wave_all, con_tmp)
           cut == wv.heap[fl.ref]
       IN  /\ flux' = fl.ref
           /\ wave' = wv.ref
           /\ IF cut = << >>
              THEN /\ heap' = wv.heap
                   /\ qraised' = "ValueError"
                   /\ qpc' = "aborted"
                   /\ template' = template
              ELSE /\ heap' = [wv.heap EXCEPT
                                 ![fl.ref] = DivByMax(cut),
                                 ![wv.ref] = [j \in 1 .. Len(wv.heap[wv.ref]) |->
                                                 RatMul(wv.heap[wv.ref][j], <<1, 10000>>)]]
                   /\ template' = [spectral_axis |-> heap'[wave'], flux |-> heap'[flux']]
                   /\ qpc' = "bin"
                   /\ qraised' = qraised
    /\ UNCHANGED << wave_f, flux_f, flux_err_f, mask, obs_f, continuum_f, flux_sub_f,
                    mask_f, wave_obs, flux_obs, flux_err_obs, wht_obs, dataspec_sub, p_obs,
                    h5file, content, flux_all, wave_all, wave_bin, flux_bin,
                    continuum_model, p_template, p_smooth_template >>
    /\ UNCHANGED << z_rec, lag_step, shown_axis >>
    /\ UNCHANGED notPrepVars

\* cell "if False: ... else: wave_bin = wave; flux_bin = flux"
BinTemplate ==
    /\ qpc = "bin"
    /\ wave_bin' = wave
    /\ flux_bin' = flux
    /\ template' = [spectral_axis |-> heap[wave_bin'], flux |-> heap[flux_bin']]
    /\ qpc' = "template_continuum"
    /\ UNCHANGED << qraised, wave_f, flux_f, flux_err_f, mask, obs_f, continuum_f,
                    flux_sub_f, mask_f, wave_obs, flux_obs, flux_err_obs, wht_obs,
                    dataspec_sub, p_obs, h5file, content, heap, flux_all, wave_all, flux,
                    wave, continuum_model, p_template, p_smooth_template >>
    /\ UNCHANGED << z_rec, lag_step, shown_axis >>
    /\ UNCHANGED notPrepVars

\* the values template - continuum_model(template.spectral_axis) can take:
\* the residual of a fit of the library, any value at every sample; nan
\* throughout for a template with a nan
Residuals(t) ==
    IF \E j \in 1 .. Len(t.flux) : IsNaN(t.flux[j])
    THEN { [j \in 1 .. Len(t.flux) |-> NaNQ] }
    ELSE { Ints(a) : a \in [1 .. Len(t.flux) -> (0 - MaxResid) .. MaxResid] }

\* cell "# Continuum fit to the fitting temp;"
TemplateContinuum ==
    /\ qpc = "template_continuum"
    /\ continuum_model' = [kind |-> "cheb3", spectral_axis |-> template.spectral_axis,
                           flux |-> [kind |-> "template"]]
    /\ \E r \in Residuals(template) :
          p_template' = [spectral_axis |-> template.spectral_axis, flux |-> r]
    /\ qpc' = "normalize"
    /\ UNCHANGED << qraised, wave_f, flux_f, flux_err_f, mask, obs_f, continuum_f,
                    flux_sub_f, mask_f, wave_obs, flux_obs, flux_err_obs, wht_obs,
                    dataspec_sub, p_obs, h5file, content, heap, flux_all, wave_all, flux,
                    wave, wave_bin, flux_bin, template, p_smooth_template >>
    /\ UNCHANGED << z_rec, lag_step, shown_axis >>
    /\ UNCHANGED notPrepVars

\* cell "# Put data array into Specutils format;": sflux / sflux.max()
NormalizeTemplate ==
    /\ qpc = "normalize"
    /\ p_smooth_template' = [spectral_axis |-> p_template.spectral_axis,
                             flux |-> DivByMax(p_template.flux)]
    /\ qpc' = "done"
    /\ UNCHANGED << qraised, wave_f, flux_f, flux_err_f, mask, obs_f, continuum_f,
                    flux_sub_f, mask_f, wave_obs, flux_obs, flux_err_obs, wht_obs,
                    dataspec_sub, p_obs, h5file, content, heap, flux_all, wave_all, flux,
                    wave, wave_bin, flux_bin, template, continuum_model, p_template >>
    /\ UNCHANGED << z_rec, lag_step, shown_axis >>
    /\ UNCHANGED notPrepVars

\* a - b and |a| of finite numbers
RatSub(a, b) == RatAdd(a, << 0 - b[1], b[2] >>)

RatAbs(a) == << Abs(a[1]), a[2] >>

RatLeq(a, b) == ~RatLess(b, a)

\* the smallest of a non-empty set of finite numbers
RatMin(S) == CHOOSE x \in S : \A y \in S : RatLeq(x, y)

\* velocity resolution of a wavelength grid, as a redshift: the smallest
\* step between neighbours relative to the wavelength
VelocityResolution(w) ==
    RatMin({ QDiv(RatSub(w[j + 1], w[j]), w[j + 1]) : j \in 1 .. Len(w) - 1 })

\* multiples of the lag spacing by which the recovered redshift is off
MaxLagOff == 1

\* the template is redshifted with the wrong factor
ScaleByZOnly(axis, zz) == [j \in 1 .. Len(axis) |-> RatMul(axis[j], zz)]

\* template.spectral_axis * (1. + z)
ScaleByOnePlusZ(axis, zz) ==
    [j \in 1 .. Len(axis) |-> RatMul(axis[j], RatAdd(<<1, 1>>, zz))]

\* cell "How does it look?": z is what the peak cells left, a number of
\* lag spacings away from the redshift the template was made with
ShowTemplate ==
    /\ qpc = "done"
    /\ lag_step' = VelocityResolution(heap[content[iix].wavelengths])
    /\ \E k \in (0 - MaxLagOff) .. MaxLagOff :
          z_rec' = RatAdd(RatSub(OnePlusZInput, <<1, 1>>), RatMul(<<k, 1>>, lag_step'))
    /\ shown_axis' = ScaleByOnePlusZ(template.spectral_axis, z_rec')
    /\ qpc' = "shown"
    /\ UNCHANGED << qraised, wave_f, flux_f, flux_err_f, mask, obs_f, continuum_f,
                    flux_sub_f, mask_f, wave_obs, flux_obs, flux_err_obs, wht_obs,
                    dataspec_sub, p_obs, h5file, content, heap, flux_all, wave_all, flux,
                    wave, wave_bin, flux_bin, template, continuum_model, p_template,
                    p_smooth_template >>
    /\ UNCHANGED notPrepVars

IdlePrep ==
    /\ qpc = "idle"
    /\ wave_f = [f \in Filters |-> << >>]
    /\ flux_f = [f \in Filters |-> << >>]
    /\ flux_err_f = [f \in Filters |-> << >>]
    /\ h5file = << >>
    /\ ObsPrepUnbound
    /\ TemplatePrepUnbound

PrepStart ==
    /\ ObsPrepStart
    /\ h5file \in TemplateFiles
    /\ TemplatePrepUnbound

NextPrep ==
    \/ ContinuumCell("f200w") \/ ContinuumCell("f150w") \/ ContinuumCell("f115w")
    \/ Concatenate \/ MakePObs
    \/ ReadTemplate \/ Deredshift \/ CutTemplate \/ BinTemplate \/ TemplateContinuum
    \/ NormalizeTemplate \/ ShowTemplate

(***************************************************************************)
(* The download steps.                                                     *)
(***************************************************************************)
\* number of members of the archive, runs of the setup cell and calls of
\* mast_retrieve_files considered
NMembers == 3

MaxRuns == 3

MaxCalls == 2

\* the directories a file can be retrieved into: '.' (output_path None) and
\* a directory given as output_path
MastDirs == {".", "cache"}

NoCall == [output_path |-> "none", redownload |-> FALSE, token |-> FALSE, dir |-> "."]

NoReturn == [kind |-> "none", path |-> << >>]

IdleFetch ==
    /\ setup = "none"
    /\ fpc = "idle"
    /\ outcome = "none"
    /\ fraised = ""
    /\ dir_exists = FALSE
    /\ archive = "absent"
    /\ extracted = 0
    /\ item = 0
    /\ runs = 0
    /\ mast_dir = FALSE
    /\ mast_files = [d \in MastDirs |-> "absent"]
    /\ mast_requests = 0
    /\ mast_calls = 0
    /\ mast_call = NoCall
    /\ mast_ret = NoReturn
    /\ mast_login = FALSE
    /\ mast_printed = << >>

\* the setup cell on a fresh checkout, or with the reference data already
\* unpacked (setup "stpsf", "niriss"); or the calls of mast_retrieve_files
\* (setup "mast"), where files of earlier sessions may be in the directories
FetchStart ==
    /\ setup \in {"stpsf", "niriss", "mast"}
    /\ fpc = IF setup = "mast" THEN "idle" ELSE "ready"
    /\ outcome = "none"
    /\ fraised = ""
    /\ dir_exists \in BOOLEAN
    /\ setup = "mast" => ~dir_exists
    /\ archive = "absent"
    /\ extracted = IF dir_exists THEN NMembers ELSE 0
    /\ item = 0
    /\ runs = 0
    /\ mast_dir \in BOOLEAN
    /\ mast_files \in [MastDirs -> {"absent", "cached"}]
    /\ ~mast_dir => mast_files["cache"] = "absent"
    /\ setup # "mast" => (~mast_dir /\ mast_files = [d \in MastDirs |-> "absent"])
    /\ mast_requests = 0
    /\ mast_calls = 0
    /\ mast_call = NoCall
    /\ mast_ret = NoReturn
    /\ mast_login = FALSE
    /\ mast_printed = << >>

\* the setup cell is run, or run again: the guard os.path.exists; stpsf
\* creates the folder before it downloads
RunSetupCell ==
    /\ fpc = "ready"
    /\ runs < MaxRuns
    /\ runs' = runs + 1
    /\ fraised' = ""
    /\ item' = 0
    /\ IF dir_exists
       THEN /\ outcome' = "skipped"
            /\ fpc' = "ready"
            /\ dir_exists' = dir_exists
       ELSE /\ outcome' = "running"
            /\ fpc' = "fetch"
            /\ dir_exists' = (setup = "stpsf")
    /\ UNCHANGED << setup, archive, extracted, mast_dir, mast_files, mast_requests,
                    mast_calls, mast_call, mast_ret, mast_login, mast_printed >>
    /\ UNCHANGED notFetchVars

\* download_file(stpsf_url, stpsf_file) / urllib.request.urlretrieve: the
\* archive arrives whole, or the fetch raises before anything is written,
\* or it raises part-way and leaves a truncated archive
FetchArchive ==
    /\ fpc = "fetch"
    /\ \E out \in {"ok", "raise", "partial"} :
          /\ archive' = IF out = "ok" THEN "complete"
                        ELSE IF out = "partial" THEN "partial" ELSE archive
          /\ IF out = "ok"
             THEN /\ fpc' = "extract"
                  /\ UNCHANGED << outcome, fraised >>
             ELSE /\ fpc' = "ready"
                  /\ outcome' = "failed"
                  /\ fraised' = "FetchError"
    /\ UNCHANGED << setup, dir_exists, extracted, item, runs, mast_dir, mast_files,
                    mast_requests, mast_calls, mast_call, mast_ret, mast_login,
                    mast_printed >>
    /\ UNCHANGED notFetchVars

\* notebooks 02, 03: for item in list_names: zf.extract(member=item); the
\* members lie under ./output, which the first extraction creates
ExtractMember ==
    /\ fpc = "extract"
    /\ setup = "niriss"
    /\ \E out \in {"ok", "interrupted"} :
          IF out = "ok"
          THEN /\ extracted' = Max2(extracted, item + 1)
               /\ dir_exists' = TRUE
               /\ item' = item + 1
               /\ fraised' = fraised
               /\ IF item + 1 = NMembers
                  THEN outcome' = "done" /\ fpc' = "ready"
                  ELSE outcome' = outcome /\ fpc' = fpc
          ELSE /\ outcome' = "failed"
               /\ fraised' = "Interrupted"
               /\ fpc' = "ready"
               /\ UNCHANGED << extracted, dir_exists, item >>
    /\ UNCHANGED << setup, archive, runs, mast_dir, mast_files, mast_requests, mast_calls,
                    mast_call, mast_ret, mast_login, mast_printed >>
    /\ UNCHANGED notFetchVars

\* stpsf: gzf.extractall(stpsf_folder, filter='data'): all members, or an
\* interruption after k of them
ExtractAll ==
    /\ fpc = "extract"
    /\ setup = "stpsf"
    /\ \E k \in 0 .. NMembers :
          /\ extracted' = Max2(extracted, k)
          /\ item' = k
          /\ IF k = NMembers
             THEN outcome' = "done" /\ fraised' = fraised
             ELSE outcome' = "failed" /\ fraised' = "Interrupted"
    /\ fpc' = "ready"
    /\ UNCHANGED << setup, dir_exists, archive, runs, mast_dir, mast_files, mast_requests,
                    mast_calls, mast_call, mast_ret, mast_login, mast_printed >>
    /\ UNCHANGED notFetchVars

\* os.path.join(output_path, filename)
PathJoin(dir, filename) == << dir, filename >>

\* the cached file is used whatever redownload says
CacheHitIgnoringRedownload(existed, redownload) == existed

\* os.path.exists(output_filename) and not redownload
CacheHit(existed, redownload) == existed /\ ~redownload

\* mast_retrieve_files(filename, output_path, verbose, redownload, token)
MastRetrieve(output_path, verbose, redownload, token) ==
    /\ setup = "mast"
    /\ mast_calls < MaxCalls
    /\ LET dir == IF output_path = "none" THEN "." ELSE output_path
           output_filename == PathJoin(dir, "file")
           existed == mast_files[dir] # "absent"
       IN  /\ mast_calls' = mast_calls + 1
           /\ mast_call' = [output_path |-> output_path, redownload |-> redownload,
                            token |-> token, dir |-> dir]
           /\ mast_login' = (mast_login \/ token)
           /\ mast_dir' = (mast_dir \/ dir = "cache")
           /\ IF CacheHit(existed, redownload)
              THEN /\ mast_printed' = IF verbose
                                      THEN Append(mast_printed, "Found file previously downloaded")
                                      ELSE mast_printed
                   /\ mast_ret' = [kind |-> "path", path |-> output_filename]
                   /\ UNCHANGED << mast_files, mast_requests >>
              ELSE /\ mast_requests' = mast_requests + 1
                   /\ \E out \in {"ok", "HTTPError", "error", "error_partial"} :
                         /\ mast_files' =
                               IF out = "ok" THEN [mast_files EXCEPT ![dir] = "fresh"]
                               ELSE IF out = "error_partial"
                               THEN [mast_files EXCEPT ![dir] = "partial"]
                               ELSE mast_files
                         /\ mast_printed' = IF out = "HTTPError"
                                            THEN Append(mast_printed, "HTTPError")
                                            ELSE mast_printed
                         /\ mast_ret' = IF out \in {"ok", "HTTPError"}
                                        THEN [kind |-> "path", path |-> output_filename]
                                        ELSE [kind |-> "raised", path |-> << >>]
    /\ UNCHANGED << setup, fpc, outcome, fraised, dir_exists, archive, extracted, item, runs >>
    /\ UNCHANGED notFetchVars

MastRetrieveCall ==
    \E output_path \in {"none", "cache"}, verbose \in BOOLEAN, redownload \in BOOLEAN,
       token \in BOOLEAN :
        MastRetrieve(output_path, verbose, redownload, token)

NextFetch == RunSetupCell \/ FetchArchive \/ ExtractMember \/ ExtractAll \/ MastRetrieveCall

(***************************************************************************)
(* fluxes2mags (NIRCam multiband photometry).  A flux is a number, inf or  *)
(* nan; a magnitude is a number, inf or nan (kind "num"), the AB magnitude *)
(* of a positive flux (kind "abmag", -2.5 log10 of the flux over the zero  *)
(* point) or 2.5 log10 of a positive number other than 1 (kind "log").     *)
(***************************************************************************)
\* number of sources of the catalogue
MaxSources == 2

NegInf == << 0 - 1, 0 >>

IsInf(x) == x[2] = 0 /\ x[1] # 0

MagNum(x) == [kind |-> "num", arg |-> x]

\* x < 0 and x <= 0 of numpy: false for nan
Negative(x) == x[1] < 0

NonPositive(x) == ~IsNaN(x) /\ x[1] <= 0

\* x / y of floats: nan for nan operands, 0/0 and inf/inf, inf for x/0
XDiv(x, y) ==
    IF IsNaN(x) \/ IsNaN(y) THEN NaNQ
    ELSE IF IsInf(x) /\ IsInf(y) THEN NaNQ
    ELSE QDiv(x, y)

\* 1 + x of floats
OnePlus(x) == IF x[2] = 0 THEN x ELSE RatAdd(<<1, 1>>, x)

\* x.to(u.ABmag): -2.5 log10 of a flux
ToABmag(x) ==
    IF IsNaN(x) \/ Negative(x) THEN MagNum(NaNQ)
    ELSE IF x = Inf THEN MagNum(NegInf)
    ELSE IF x[1] = 0 THEN MagNum(Inf)
    ELSE [kind |-> "abmag", arg |-> x]

\* 2.5 * np.log10(y)
Log10Times25(y) ==
    IF IsNaN(y) \/ Negative(y) THEN MagNum(NaNQ)
    ELSE IF y = Inf THEN MagNum(Inf)
    ELSE IF y[1] = 0 THEN MagNum(NegInf)
    ELSE IF y = <<1, 1>> THEN MagNum(<<0, 1>>)
    ELSE [kind |-> "log", arg |-> y]

\* np.where(cond, a, b), one element
Where(cond, a, b) == IF cond THEN a ELSE b

\* the flags are applied in the other order
Fluxes2MagsNondetLast(fl, fluxerr) ==
    LET nondet == Negative(fl)
        unobs == NonPositive(fluxerr) \/ fluxerr = Inf
    IN  [mag |-> Where(nondet, MagNum(<<99, 1>>),
                       Where(unobs, MagNum(<<0 - 99, 1>>), ToABmag(fl))),
         magerr |-> Where(nondet, ToABmag(fluxerr),
                          Where(unobs, MagNum(<<0, 1>>),
                                Log10Times25(OnePlus(XDiv(fluxerr, fl)))))]

\* fluxes2mags(flux, fluxerr), one element of the arrays
Fluxes2MagsElement(fl, fluxerr) ==
    LET nondet == Negative(fl)
        unobs == NonPositive(fluxerr) \/ fluxerr = Inf
        mag0 == ToABmag(fl)
        magupperlimit == ToABmag(fluxerr)
        mag1 == Where(nondet, MagNum(<<99, 1>>), mag0)
        mag2 == Where(unobs, MagNum(<<0 - 99, 1>>), mag1)
        magerr0 == Log10Times25(OnePlus(XDiv(fluxerr, fl)))
        magerr1 == Where(nondet, magupperlimit, magerr0)
        magerr2 == Where(unobs, MagNum(<<0, 1>>), magerr1)
    IN  [mag |-> mag2, magerr |-> magerr2]

\* fluxes of the sources: negative, zero, positive, nan
Fluxes == { << 0 - 1, 1 >>, <<0, 1>>, <<1, 1>>, <<2, 1>>, NaNQ }

\* flux errors: negative, zero, positive, infinite, nan
FluxErrs == { << 0 - 1, 1 >>, <<0, 1>>, <<1, 1>>, <<2, 1>>, Inf, NegInf, NaNQ }

IdlePhot ==
    /\ mpc = "idle"
    /\ phot_flux = << >>
    /\ phot_fluxerr = << >>
    /\ mag = << >>
    /\ magerr = << >>

PhotStart ==
    /\ mpc = "call"
    /\ \E k \in 1 .. MaxSources :
          /\ phot_flux \in [1 .. k -> Fluxes]
          /\ phot_fluxerr \in [1 .. k -> FluxErrs]
    /\ mag = << >>
    /\ magerr = << >>

\* mag, magerr = fluxes2mags(flux, fluxerr)
Fluxes2Mags ==
    /\ mpc = "call"
    /\ mag' = [j \in 1 .. Len(phot_flux) |->
                  Fluxes2MagsElement(phot_flux[j], phot_fluxerr[j]).mag]
    /\ magerr' = [j \in 1 .. Len(phot_flux) |->
                     Fluxes2MagsElement(phot_flux[j], phot_fluxerr[j]).magerr]
    /\ mpc' = "returned"
    /\ UNCHANGED << phot_flux, phot_fluxerr >>
    /\ UNCHANGED notPhotVars

NextPhot == Fluxes2Mags

(***************************************************************************)
(* download_file(url, dest_path, timeout=60) (stpsf_examples).             *)
(***************************************************************************)
\* number of calls considered
MaxDownloads == 3

\* the urls of the calls, character by character
Urls ==
    { <<"h", "t", "t", "p", "s", ":", "/", "/", "a">>,
      <<"h", "t", "t", "p", ":", "/", "/", "a">>,
      <<"H", "T", "T", "P", ":", "/", "/", "a">>,
      <<"f", "t", "p", ":", "/", "/", "a">>,
      <<"f", "i", "l", "e", ":", "/", "a">>,
      <<"s", "3", ":", "/", "/", "a">>,
      <<"/", "a", ":", "b">>,
      <<":", "a">>,
      <<"a", "/", "b">> }

UrlLetters == {"a", "b", "e", "f", "h", "i", "l", "p", "s", "t"}

UrlLowerChar(ch) ==
    CASE ch = "H" -> "h" [] ch = "T" -> "t" [] ch = "P" -> "p" [] OTHER -> ch

\* urlparse(url).scheme: the characters before the first ':' in lower case
\* when they begin with a letter and are letters, digits, '+', '-' or '.';
\* empty otherwise
Scheme(url) ==
    LET colons == { k \in 1 .. Len(url) : url[k] = ":" }
        first == IF colons = {} THEN 0
                 ELSE CHOOSE k \in colons : \A m \in colons : k <= m
        prefix == [k \in 1 .. first - 1 |-> UrlLowerChar(url[k])]
    IN  IF first <= 1 THEN << >>
        ELSE IF /\ prefix[1] \in UrlLetters
                /\ \A k \in 1 .. Len(prefix) :
                      prefix[k] \in UrlLetters \cup {"3", "+", "-", "."}
        THEN prefix
        ELSE << >>

\* every scheme is let through
SupportedSchemeAny(scheme) == TRUE

\* parsed_url.scheme in ["http", "https"]
SupportedScheme(scheme) ==
    scheme \in { <<"h", "t", "t", "p">>, <<"h", "t", "t", "p", "s">> }

IdleDl ==
    /\ dpc = "idle"
    /\ dl_url = << >>
    /\ dl_file = "absent"
    /\ dl_requests = 0
    /\ dl_response = "none"
    /\ dl_raised = ""
    /\ dl_calls = 0

DlStart ==
    /\ dpc = "ready"
    /\ dl_url = << >>
    /\ dl_file \in {"absent", "old"}
    /\ dl_requests = 0
    /\ dl_response = "none"
    /\ dl_raised = ""
    /\ dl_calls = 0

\* download_file(url, dest_path): the scheme check, the request, the status
\* check, then the destination is opened for writing and the chunks of the
\* response are written
DownloadFile(url) ==
    /\ dpc = "ready"
    /\ dl_calls < MaxDownloads
    /\ dl_calls' = dl_calls + 1
    /\ dl_url' = url
    /\ IF ~SupportedScheme(Scheme(url))
       THEN /\ dl_raised' = "ValueError"
            /\ dl_response' = "none"
            /\ UNCHANGED << dl_requests, dl_file >>
       ELSE /\ dl_requests' = dl_requests + 1
            /\ \E out \in {"ConnectionError", "HTTPError", "ChunkedEncodingError", "ok"} :
                  /\ dl_raised' = IF out = "ok" THEN "" ELSE out
                  /\ dl_response' = CASE out = "ConnectionError" -> "none"
                                      [] out = "HTTPError" -> "error"
                                      [] OTHER -> "ok"
                  /\ dl_file' = CASE out = "ok" -> "complete"
                                  [] out = "ChunkedEncodingError" -> "partial"
                                  [] OTHER -> dl_file
    /\ dpc' = dpc
    /\ UNCHANGED notDlVars

DownloadFileCall == \E url \in Urls : DownloadFile(url)

NextDl == DownloadFileCall

(***************************************************************************)
(* Notebook 03, cells "Open two-dimensional file" (f200w) and the same for *)
(* f150w.  An image is a sequence of rows.                                 *)
(***************************************************************************)
\* largest size of an image across and along the dispersion
MaxCross == 3

MaxDisp == 4

\* the names the import cell and the cells before the loader bind
BoundNames ==
    {"os", "np", "fits", "u", "models", "Chebyshev1D", "Spectrum", "fit_lines",
     "continuum", "astropy_version"}

Shape(img) == << Len(img), Len(img[1]) >>

\* an image turned by 90 degrees: the columns become the rows
Rot90(img) ==
    [r \in 1 .. Len(img[1]) |-> [c \in 1 .. Len(img) |-> img[c][Len(img[1]) + 1 - r]]]

\* the extensions of a file of cross-dispersion size h and dispersion size
\* w: a G150C file has the dispersion along x, a G150R file along y
Extensions(g, h, w, level) ==
    LET along(r, c) == IF g = "G150C" THEN c ELSE r
        across(r, c) == IF g = "G150C" THEN r ELSE c
        sci(r, c) == level + across(r, c)
        dq(r, c) == 0
        err(r, c) == 1
        wav(r, c) == 1000 + 10 * along(r, c)
        nrows == IF g = "G150C" THEN h ELSE w
        ncols == IF g = "G150C" THEN w ELSE h
    IN  << [r \in 1 .. nrows |-> [c \in 1 .. ncols |-> sci(r, c)]],
           [r \in 1 .. nrows |-> [c \in 1 .. ncols |-> dq(r, c)]],
           [r \in 1 .. nrows |-> [c \in 1 .. ncols |-> err(r, c)]],
           [r \in 1 .. nrows |-> [c \in 1 .. ncols |-> wav(r, c)]] >>

NotOpened == [data_2d |-> << >>, dq_2d |-> << >>, err_2d |-> << >>, wave_2d |-> << >>]

IdleLoad ==
    /\ lpc = "idle"
    /\ grism = "none"
    /\ files_2d = << >>
    /\ opened_2d = NotOpened
    /\ lraised = ""

LoadStart ==
    /\ lpc = "open_f200w"
    /\ grism \in {"G150C", "G150R"}
    /\ \E h \in 1 .. MaxCross, w \in 2 .. MaxDisp, l200 \in {0, 5}, l150 \in {0, 5} :
          files_2d = [f \in {"f200w", "f150w"} |->
                         Extensions(grism, h, w, IF f = "f200w" THEN l200 ELSE l150)]
    /\ opened_2d = NotOpened
    /\ lraised = ""

\* hdu_2d = fits.open(file_2d); the four arrays as they are for G150C,
\* rotate(..., 90) of them otherwise; ndither = 0
OpenFile(f, next) ==
    /\ lpc = next[1]
    /\ LET hdu_2d == files_2d[f]
       IN  IF grism = "G150C"
           THEN /\ opened_2d' = [data_2d |-> hdu_2d[1], dq_2d |-> hdu_2d[2],
                                 err_2d |-> hdu_2d[3], wave_2d |-> hdu_2d[4]]
                /\ lpc' = next[2]
                /\ lraised' = lraised
           ELSE IF "rotate" \in BoundNames
           THEN /\ opened_2d' = [data_2d |-> Rot90(hdu_2d[1]), dq_2d |-> Rot90(hdu_2d[2]),
                                 err_2d |-> Rot90(hdu_2d[3]), wave_2d |-> Rot90(hdu_2d[4])]
                /\ lpc' = next[2]
                /\ lraised' = lraised
           ELSE /\ lraised' = "NameError"
                /\ lpc' = "aborted"
                /\ opened_2d' = opened_2d
    /\ UNCHANGED << grism, files_2d >>
    /\ UNCHANGED notLoadVars

OpenF200W == OpenFile("f200w", << "open_f200w", "open_f150w" >>)

OpenF150W == OpenFile("f150w", << "open_f150w", "opened" >>)

NextLoad == OpenF200W \/ OpenF150W

(***************************************************************************)
(* Specifications.                                                         *)
(***************************************************************************)
InitPeak == PeakStart /\ IdleRows /\ IdlePrep /\ IdleFetch /\ IdlePhot /\ IdleDl /\ IdleLoad

InitRows == IdlePeak /\ RowsStart /\ IdlePrep /\ IdleFetch /\ IdlePhot /\ IdleDl /\ IdleLoad

InitRowsPar == IdlePeak /\ RowsParStart /\ IdlePrep /\ IdleFetch /\ IdlePhot /\ IdleDl /\ IdleLoad

InitPrep == IdlePeak /\ IdleRows /\ PrepStart /\ IdleFetch /\ IdlePhot /\ IdleDl /\ IdleLoad

InitFetch == IdlePeak /\ IdleRows /\ IdlePrep /\ FetchStart /\ IdlePhot /\ IdleDl /\ IdleLoad

InitPhot == IdlePeak /\ IdleRows /\ IdlePrep /\ IdleFetch /\ PhotStart /\ IdleDl /\ IdleLoad

\* notebook 02, correlation and peak cells
SpecPeak == InitPeak /\ [][NextPeak]_vars

\* notebook 03, cells run in order
SpecRows == InitRows /\ [][NextRows]_vars

\* notebook 03, continuum loop run as concurrent iterations
SpecRowsPar == InitRowsPar /\ [][NextRowsPar]_vars

\* notebook 02, continuum cells to the normalized template
SpecPrep == InitPrep /\ [][NextPrep]_vars

\* the download steps
SpecFetch == InitFetch /\ [][NextFetch]_vars

\* the magnitude conversion
SpecPhot == InitPhot /\ [][NextPhot]_vars

InitDl == IdlePeak /\ IdleRows /\ IdlePrep /\ IdleFetch /\ IdlePhot /\ DlStart /\ IdleLoad

\* calls of download_file
SpecDl == InitDl /\ [][NextDl]_vars

InitLoad == IdlePeak /\ IdleRows /\ IdlePrep /\ IdleFetch /\ IdlePhot /\ IdleDl /\ LoadStart

\* the cells that open the two-dimensional files
SpecLoad == InitLoad /\ [][NextLoad]_vars

Init ==
    InitPeak \/ InitRows \/ InitRowsPar \/ InitPrep \/ InitFetch \/ InitPhot \/ InitDl
    \/ InitLoad

Next ==
    NextPeak \/ NextRows \/ NextRowsPar \/ NextPrep \/ NextFetch \/ NextPhot \/ NextDl
    \/ NextLoad

Spec == Init /\ [][Next]_vars

(***************************************************************************)
(* Properties of the peak-location cells.                                  *)
(***************************************************************************)
\* the parabolic-fit cell has run (to its end, or to the polyfit exception)
ParabolicActed == pc \in {"show", "done"} \/ (pc = "aborted" /\ raised = "TypeError")

\* the parabolic-fit cell has run to its end and reported a refined estimate
RefinedReported == pc \in {"show", "done"}

\* elements max(0, i-n) .. min(len-1, i+n) of a
ClippedWindow(a, i) == SubSeq(a, Max2(0, i - n) + 1, Min2(Len(a) - 1, i + n) + 1)

NearEdge == index_peak < n \/ index_peak > Len(corr) - 1 - n

Interior == n <= index_peak /\ index_peak <= Len(corr) - 1 - n

\* C1: for every curve and every position of its maximum, the window handed
\* to the parabolic fit is exactly the indices max(0, i-n) .. min(L-1, i+n):
\* clipped, never wrapped around, never empty.
C1_WindowClippedToCurve ==
    ParabolicActed =>
        /\ peak_lags = ClippedWindow(lag, index_peak)
        /\ peak_vals = ClippedWindow(corr, index_peak)
        /\ peak_lags # << >>
        /\ raised = ""

\* C6: whenever the refined estimate was computed from a window clipped at
\* an end of the lag grid, it is accompanied by an edge-affected mark.
C6_ClippedEstimateIsMarked ==
    (RefinedReported /\ NearEdge) =>
        \/ "EdgeClipWarning" \in warned
        \/ \E k \in 1 .. Len(printed) : printed[k][1] = "EdgeClipWarning"

\* C7: when the maximum is at least n points from both ends, the fit uses
\* exactly the 2n+1 consecutive (lag, correlation) pairs at indices
\* i-n .. i+n, lag and correlation taken from the same indices.
C7_InteriorWindow ==
    (ParabolicActed /\ Interior) =>
        /\ raised = ""
        /\ Len(peak_lags) = 2 * n + 1
        /\ Len(peak_vals) = 2 * n + 1
        /\ \A k \in 1 .. 2 * n + 1 :
              /\ peak_lags[k] = lag[index_peak - n + k]
              /\ peak_vals[k] = corr[index_peak - n + k]

C7_Witness == pc = "show" /\ Interior /\ Len(corr) > 2 * n + 1

\* C8: the discrete velocity estimate is lag[i] for the lowest index i whose
\* correlation is the largest, and the discrete redshift is that velocity
\* divided by the speed of light.
C8_DiscreteMaximum ==
    index_peak # Unbound =>
        /\ index_peak \in 0 .. Len(corr) - 1
        /\ \A j \in 0 .. Len(corr) - 1 : corr[j + 1] <= corr[index_peak + 1]
        /\ \A j \in 0 .. index_peak - 1 : corr[j + 1] < corr[index_peak + 1]
        /\ v = [kind |-> "num", re |-> <<lag[index_peak + 1], 1>>, off |-> <<0, 1>>,
                im |-> FALSE, cpow |-> 0]
        /\ printed[2] = <<"Redshift from peak maximum: ", [v EXCEPT !.cpow = -1]>>
        /\ pc = "parabolic" => z = [v EXCEPT !.cpow = -1]

C8_Witness ==
    /\ pc = "parabolic"
    /\ \E j \in index_peak + 1 .. Len(corr) - 1 : corr[j + 1] = corr[index_peak + 1]

\* C9: for every fitted quadratic with a # 0 the refined lag, the mean of the
\* two roots, is the vertex -b/(2a) and is real, whatever the sign of a and
\* of the discriminant.
C9_RefinedLagIsVertex ==
    (RefinedReported /\ p.a # 0) =>
        /\ Len(roots) = 2
        /\ v_fit.kind = "num"
        /\ v_fit.re = Rat(-p.b, 2 * p.a)
        /\ v_fit.off = <<0, 1>>
        /\ ~v_fit.im

C9_Witness == RefinedReported /\ p.a < 0 /\ Len(roots) = 2 /\ roots[1].im

\* the curve is symmetric about its maximum
SymmetricAboutPeak ==
    \A k \in 1 .. Len(corr) :
        (index_peak - k >= 0 /\ index_peak + k <= Len(corr) - 1)
            => corr[index_peak - k + 1] = corr[index_peak + k + 1]

UniformLag ==
    \A k \in 1 .. Len(lag) - 2 : lag[k + 2] - lag[k + 1] = lag[k + 1] - lag[k]

\* C10: for a curve on a uniform lag grid that is symmetric about its
\* maximum, the maximum at least n points from both ends, the refined
\* velocity equals the discrete-maximum velocity exactly.
C10_SymmetricCurveAgrees ==
    (RefinedReported /\ Interior /\ UniformLag /\ SymmetricAboutPeak) => v_fit = v

\* C5: whenever the template's and the observed spectrum's wavelength ranges
\* do not overlap, the run fails with NoOverlapError before the correlation
\* is computed, and no correlation curve or redshift is produced.
C5_NoOverlapIsRejected ==
    (~Overlap(obs_range, tmpl_range) /\ pc \notin {"correlate", "idle"}) =>
        /\ raised = "NoOverlapError"
        /\ corr = << >>
        /\ z = None

\* the curve of a one-line template against its copy shifted to lag index k:
\* a single positive sample at k, zero elsewhere
SpikeAt(k) ==
    /\ k \in 0 .. Len(corr) - 1
    /\ corr[k + 1] > 0
    /\ \A j \in 0 .. Len(corr) - 1 : j # k => corr[j + 1] = 0

\* C11: for a template correlated against a copy of itself shifted by a
\* velocity v0 inside the lag grid, the refined velocity is reported and
\* differs from v0 by at most one spacing of the lag grid (1 km/s here).
C11_KnownShiftRecovered ==
    \A k \in 0 .. Len(corr) - 1 :
        (ParabolicActed /\ SpikeAt(k)) =>
            /\ RefinedReported
            /\ v_fit.kind = "num"
            /\ ~v_fit.im
            /\ Abs(v_fit.re[1] - lag[k + 1] * v_fit.re[2]) <= v_fit.re[2]

\* C12: once the discrete-maximum cell and the parabolic-fit cell have run,
\* the redshift printed and plotted by the final cell is the refined
\* velocity divided by c; nothing is shown before the refinement completes.
C12_RefinedRedshiftShown ==
    /\ pc = "done" =>
          /\ shown_z = DivByC(v_fit)
          /\ printed[Len(printed)] = <<"z =", DivByC(v_fit)>>
    /\ pc \in {"correlate", "peak_max", "parabolic", "show", "aborted"} => shown_z = None
    /\ pc = "show" => z = DivByC(v_fit)
    /\ pc = "parabolic" => z = DivByC(v)

\* the refined and the discrete redshift differ and the refined one is shown
C12_Witness ==
    /\ pc = "done"
    /\ v_fit.kind = "num"
    /\ v_fit # v
    /\ shown_z = DivByC(v_fit)
    /\ shown_z # DivByC(v)

(***************************************************************************)
(* Properties of the row loops of notebook 03.                             *)
(***************************************************************************)
\* the samples the continuum windows select in row r (1-based), and the
\* continuum row the loop body computes from row r alone
SelectedWave(r) == BoolIndex(wave_2d[r], MaskLine(wave_2d[r], filt))

SelectedData(r) == BoolIndex(data_2d[r], MaskLine(wave_2d[r], filt))

RowContinuum(r) ==
    EvalModel(FitContinuum(Spectrum(SelectedWave(r),
                                    Arr("data", SelectedData(r), NoModel, << >>, 0))),
              wave_2d[r])

\* the run stopped in the continuum loop
ContinuumLoopAborted == rpc = "aborted" /\ line_2d = << >> /\ cut_ha = << >>

\* C2: in the continuum loop and in the line-fit loop a failing row (too few
\* continuum samples, a fit that does not converge, any exception) is
\* caught: no exception stops the loop, the row of a fit that did not
\* converge keeps its zeros, and the loop goes on to the last row.
C2_RowFailureIsCaught ==
    /\ rpc # "aborted"
    /\ rraised = ""
    /\ \A r \in 1 .. Len(cut_hb) :
          cut_hb[r] # ZerosArr => cut_hb[r].model.converged
    /\ \A r \in 1 .. Len(flux_cont2d) :
          (filt # "none" /\ Len(SelectedWave(r)) < Degree + 1) => flux_cont2d[r] = ZerosArr

\* C4: a continuum fit on fewer than degree+1 selected samples fails with
\* InsufficientDataError and returns no model; no model is ever fitted to
\* fewer than degree+1 points.
C4_UnderDeterminedFitIsRejected ==
    /\ cont.kind # "none" => Len(cont.spectral_axis) >= Degree + 1
    /\ (ContinuumLoopAborted /\ Len(obs.spectral_axis) < Degree + 1)
          => rraised = "InsufficientDataError"
    /\ (rpc = "cont_store") => Len(obs.spectral_axis) >= Degree + 1

AllIterationsDone == rpc = "par" /\ \A r \in 1 .. NRows : ppc[r] = "done"

InWindows(x, f) ==
    \E k \in 1 .. Len(ContinuumWindows(f)) :
        ContinuumWindows(f)[k][1] < x /\ x < ContinuumWindows(f)[k][2]

\* the spectrum o holds exactly the samples of (w, d) inside the windows
SelectsWindowSamples(o, w, d, f) ==
    /\ o.spectral_axis = SelectSeq(w, LAMBDA x : InWindows(x, f))
    /\ Len(o.flux.data) = Len(o.spectral_axis)
    /\ \A k \in 1 .. Len(o.spectral_axis) :
          \E j \in 1 .. Len(w) : w[j] = o.spectral_axis[k] /\ d[j] = o.flux.data[k]

\* window k of filter f contains no sample of w
EmptyWindow(w, f, k) ==
    \A j \in 1 .. Len(w) :
        ~(ContinuumWindows(f)[k][1] < w[j] /\ w[j] < ContinuumWindows(f)[k][2])

\* the residual res of the samples (w, d): one value per sample, the datum
\* minus the model fitted to the window samples, evaluated at the sample
ResidualOf(res, w, d, f) ==
    /\ res.kind = "diff"
    /\ Len(res.data) = Len(w)
    /\ Len(res.at) = Len(w)
    /\ \A j \in 1 .. Len(w) : res.data[j] = d[j] /\ res.at[j] = w[j]
    /\ res.model.kind = "cheb7"
    /\ SelectsWindowSamples(res.model, w, d, f)

\* C13: the residual has one value per observed sample, those outside the
\* continuum windows included: the observed flux minus the continuum model
\* of the same filter (1D) or row (2D) at the sample's own wavelength.
C13_ResidualPerSample ==
    /\ \A f \in Filters :
          flux_sub_f[f] # UnboundArr => ResidualOf(flux_sub_f[f], wave_f[f], flux_f[f], f)
    /\ \A r \in 1 .. Len(line_2d) : ResidualOf(line_2d[r], wave_2d[r], data_2d[r], filt)

\* two rows with different wavelengths, one with samples outside the windows
C13_Witness ==
    /\ Len(line_2d) = 2
    /\ wave_2d[1] # wave_2d[2]
    /\ \E j \in 1 .. NCols : ~InWindows(wave_2d[1][j], filt)
    /\ ResidualOf(line_2d[1], wave_2d[1], data_2d[1], filt)
    /\ line_2d[1].model # line_2d[2].model

TemplateNormalized == qpc \in {"done", "shown"}

QAbs(x) == << Abs(x[1]), x[2] >>

\* flux normalized from raw: largest absolute value 1, signs kept
UnitPeak(raw, normalized) ==
    /\ Len(normalized) = Len(raw)
    /\ QMaxAbs(normalized) = <<1, 1>>
    /\ \A j \in 1 .. Len(raw) :
          /\ ~IsNaN(normalized[j])
          /\ normalized[j][2] # 0
          /\ ~RatLess(<<1, 1>>, QAbs(normalized[j]))
          /\ Sign(normalized[j][1]) = Sign(raw[j][1])

HasNonZero(a) == \E j \in 1 .. Len(a) : ~IsNaN(a[j]) /\ a[j][1] # 0

\* C15: a continuum-subtracted template with a non-zero sample is divided
\* by its maximum absolute value: afterwards the largest |flux| is 1, every
\* sample lies in [-1, 1] and keeps its sign.
C15_TemplateUnitPeak ==
    (TemplateNormalized /\ HasNonZero(p_template.flux)) =>
        UnitPeak(p_template.flux, p_smooth_template.flux)

\* the arrays loaded from the template file and the names bound to them
LoadedArrays ==
    UNION { {content[k].wavelengths, content[k].fluxes} : k \in DOMAIN content }
    \cup ({flux_all, wave_all} \ {NoRef})

\* C16: no cell modifies in place the loaded observed arrays (wave_2d,
\* data_2d, wave_*, flux_*, flux_err_*) or the loaded template arrays (the
\* arrays of content, wave_all, flux_all).
C16_InputsReadOnly ==
    [][/\ filt # "none" => (wave_2d' = wave_2d /\ data_2d' = data_2d)
       /\ qpc # "idle" => (wave_f' = wave_f /\ flux_f' = flux_f /\ flux_err_f' = flux_err_f)
       /\ \A id \in LoadedArrays : heap'[id] = heap[id]]_vars

\* the cut template was divided in place, the loaded flux array kept
C16_Witness ==
    /\ qpc = "bin"
    /\ flux # flux_all
    /\ wave # wave_all
    /\ heap[flux_all] = h5file[1].rows[2]
    /\ QMax(heap[flux]) = <<1, 1>>
    /\ QMax(heap[flux_all]) # <<1, 1>>

PObsBuilt ==
    qpc \in {"read_hdf5", "deredshift", "cut", "bin", "template_continuum", "normalize",
             "done", "shown"}

\* sample j of filter f is kept for p_obs
KeptSample(f, j) ==
    /\ KeepRange(f)[1] < wave_f[f][j]
    /\ wave_f[f][j] < KeepRange(f)[2]
    /\ Positive(Weight(flux_err_f[f][j]))

\* C17: with every filter's wavelengths strictly ascending, p_obs has a
\* strictly ascending wavelength axis without duplicates; its wavelength,
\* flux and uncertainty have the same length and stay aligned: sample k of
\* each is the same sample of the same filter.
C17_PObsAscendingAligned ==
    /\ ~(qraised = "ValueError" /\ flux = NoRef)
    /\ PObsBuilt =>
          /\ \A k \in 1 .. Len(p_obs.spectral_axis) - 1 :
                p_obs.spectral_axis[k] < p_obs.spectral_axis[k + 1]
          /\ Len(p_obs.flux) = Len(p_obs.spectral_axis)
          /\ Len(p_obs.uncertainty) = Len(p_obs.spectral_axis)
          /\ \A k \in 1 .. Len(p_obs.spectral_axis) :
                \E f \in Filters : \E j \in 1 .. Len(wave_f[f]) :
                    /\ p_obs.spectral_axis[k] = wave_f[f][j]
                    /\ KeptSample(f, j)
                    /\ p_obs.flux[k].datum = flux_f[f][j]
                    /\ p_obs.flux[k].at = wave_f[f][j]
                    /\ p_obs.flux[k].model = continuum_f[f]
                    /\ p_obs.uncertainty[k] = flux_err_f[f][j]
          /\ \A f \in Filters : \A j \in 1 .. Len(wave_f[f]) :
                KeptSample(f, j) =>
                    \E k \in 1 .. Len(p_obs.spectral_axis) :
                        p_obs.spectral_axis[k] = wave_f[f][j]

\* samples of all three filters, some dropped for their weight
C17_Witness ==
    /\ PObsBuilt
    /\ Len(p_obs.spectral_axis) < Len(wave_obs)
    /\ \A f \in Filters : \E k \in 1 .. Len(p_obs.flux) :
          p_obs.flux[k].datum \div 100 = FilterNumber(f)
    /\ wave_f["f150w"][NCols] > wave_f["f200w"][1]

\* C18: for every dataset key, read_hdf5 returns an entry under the integer
\* value of the key with the dataset's wavelengths (row 0), fluxes (row 1)
\* and a wavelength-unit tag: 'micron' without the attribute, the plural
\* spellings in any letter case brought to the singular.
C18_TemplateEntries ==
    content # << >> =>
        \A d \in 1 .. Len(h5file) :
            LET key == IntOfKey(h5file[d].key)
            IN  /\ key \in DOMAIN content
                /\ "wavelength_units" \in DOMAIN content[key]
                /\ content[key].wavelength_units = WaveUnitsString(h5file[d])
                /\ \E e \in 1 .. Len(h5file) :
                      /\ IntOfKey(h5file[e].key) = key
                      /\ heap[content[key].wavelengths] = h5file[e].rows[1]
                      /\ heap[content[key].fluxes] = h5file[e].rows[2]

(***************************************************************************)
(* Properties of the download steps.                                       *)
(***************************************************************************)
DataComplete == extracted = NMembers

\* C19: after a run of the setup cell that failed part-way (the fetch
\* raised, or the extraction was interrupted), running the cell again
\* attempts the download again: the download is never skipped while the
\* reference data is missing or incomplete.
C19_RerunRetriesDownload == outcome = "skipped" => DataComplete

\* C20: with a file at output_path/filename and redownload false,
\* mast_retrieve_files returns that path, issues no download request and
\* leaves the file alone; with redownload true it requests the download
\* although the file exists.
C20_CachedFileIsReused ==
    [][mast_calls' = mast_calls + 1 =>
          LET dir == mast_call'.dir
              existed == mast_files[dir] # "absent"
          IN  /\ (existed /\ ~mast_call'.redownload) =>
                    /\ mast_requests' = mast_requests
                    /\ mast_files' = mast_files
                    /\ mast_ret' = [kind |-> "path", path |-> PathJoin(dir, "file")]
              /\ (existed /\ mast_call'.redownload) => mast_requests' = mast_requests + 1
              /\ ~existed => mast_requests' = mast_requests + 1]_vars

\* a call found the cached file and returned it without a request, after a
\* forced download of the same file
C20_Witness ==
    /\ mast_calls = 2
    /\ mast_requests = 1
    /\ ~mast_call.redownload
    /\ mast_files[mast_call.dir] = "fresh"
    /\ mast_ret = [kind |-> "path", path |-> PathJoin(mast_call.dir, "file")]

(***************************************************************************)
(* Properties of the template wavelengths (notebook 02).                   *)
(***************************************************************************)
\* the wavelengths of the template as read from the file
OriginalWaves == heap[content[iix].wavelengths]

\* the smallest step of a wavelength grid
GridStep(w) == RatMin({ RatAbs(RatSub(w[j + 1], w[j])) : j \in 1 .. Len(w) - 1 })

SameOrder(a, b) ==
    /\ Len(a) = Len(b)
    /\ \A i, j \in 1 .. Len(a) : RatLess(a[i], a[j]) <=> RatLess(b[i], b[j])

\* the samples of the original template that the cut to 3600..13000
\* Angstrom keeps: the increasing map from the kept samples to the original
KeptOriginals ==
    LET wa == heap[wave_all]
        kept == { i \in 1 .. Len(wa) :
                     RatLess(<<3600, 1>>, wa[i]) /\ RatLess(wa[i], <<13000, 1>>) }
    IN  CHOOSE sel \in [1 .. Cardinality(kept) -> 1 .. Len(wa)] :
            /\ { sel[j] : j \in DOMAIN sel } = kept
            /\ \A j \in DOMAIN sel : j > 1 => sel[j - 1] < sel[j]

RecoveredWithinLagStep ==
    RatLeq(RatAbs(RatSub(z_rec, RatSub(OnePlusZInput, <<1, 1>>))), lag_step)

Unobserved(e) == (~IsNaN(e) /\ e[1] <= 0) \/ e = Inf

\* C23: element by element, a flux error <= 0 or infinite gives mag = -99
\* and magerr = 0 whatever the flux; otherwise a negative flux gives
\* mag = 99 and magerr = the AB magnitude of the flux error; otherwise mag is
\* the AB magnitude of the flux and magerr = 2.5 log10(1 + fluxerr/flux).
C23_CaseRule ==
    mpc = "returned" =>
        /\ Len(mag) = Len(phot_flux)
        /\ Len(magerr) = Len(phot_flux)
        /\ \A j \in 1 .. Len(phot_flux) :
              LET f == phot_flux[j]
                  e == phot_fluxerr[j]
              IN  IF Unobserved(e)
                  THEN mag[j] = MagNum(<<0 - 99, 1>>) /\ magerr[j] = MagNum(<<0, 1>>)
                  ELSE IF f[1] < 0
                  THEN mag[j] = MagNum(<<99, 1>>) /\ magerr[j] = ToABmag(e)
                  ELSE /\ mag[j] = ToABmag(f)
                       /\ magerr[j] = Log10Times25(OnePlus(XDiv(e, f)))

\* a source that is both unobserved and of negative flux, next to a
\* non-detection, was converted
C23_Witness ==
    /\ mpc = "returned"
    /\ Len(phot_flux) = 2
    /\ phot_flux[1][1] < 0 /\ phot_fluxerr[1] = Inf /\ mag[1] = MagNum(<<0 - 99, 1>>)
    /\ phot_flux[2][1] < 0 /\ phot_fluxerr[2] = <<2, 1>> /\ mag[2] = MagNum(<<99, 1>>)
    /\ magerr[2] = [kind |-> "abmag", arg |-> <<2, 1>>]

FiniteMag(m) == m.kind \in {"abmag", "log"} \/ (m.kind = "num" /\ m.arg[2] # 0)

C25_FitWindowUsable ==
    (ParabolicActed /\ Len(corr) >= 3) =>
        /\ Len(peak_lags) = Len(peak_vals)
        /\ Len(peak_lags) >= 3
        /\ \E k \in 1 .. Len(peak_lags) :
              /\ peak_lags[k] = lag[index_peak + 1]
              /\ peak_vals[k] = corr[index_peak + 1]

(***************************************************************************)
(* Properties of the emission-line cutouts (notebook 03).                  *)
(***************************************************************************)
\* rows of cut_ha that the loop of the cell "Cutout Ha line map" has filled
FilledHaRows ==
    IF filt = "f200w" /\ rpc = "cut_ha_row" THEN 1 .. yy
    ELSE IF filt = "f200w" /\ rpc = "end" THEN 1 .. NRows
    ELSE {}

\* C26: for every row and every position of the column nearest to the line
\* centre, the slice int(idx - rsq/2) : int(idx + rsq/2) has exactly rsq
\* columns, all inside the row, so the assignment into the output row
\* succeeds and the row of the line map is that slice of the row's own data.
C26_CutoutWindow ==
    /\ ~(rpc = "aborted" /\ rraised = "ValueError")
    /\ \A r \in FilledHaRows :
          LET b == CutBounds(ArgMinDist(LamcenHa, wave_2d[r]), rsq)
          IN  /\ 0 <= b[1]
              /\ b[2] <= NCols
              /\ b[2] - b[1] = rsq
              /\ cut_ha[r] = ArrSlice(DiffRow(r), b[1], b[2])

(***************************************************************************)
(* Further properties of the observed spectrum (notebook 02).              *)
(***************************************************************************)
\* from the lowest lower bound to the highest upper bound of the continuum
\* windows of a filter
WindowSpan(f) ==
    << Min2(ContinuumWindows(f)[1][1], ContinuumWindows(f)[2][1]),
       Max2(ContinuumWindows(f)[1][2], ContinuumWindows(f)[2][2]) >>

\* C27: for each filter, every sample that mask_115, mask_150 or mask_200
\* keeps for the cross-correlation has a wavelength inside the span of the
\* continuum windows fitted for that filter.
C27_NoExtrapolatedContinuum ==
    \A f \in Filters :
        \A j \in 1 .. Len(mask_f[f]) :
            mask_f[f][j] =>
                /\ WindowSpan(f)[1] <= wave_f[f][j]
                /\ wave_f[f][j] <= WindowSpan(f)[2]

(***************************************************************************)
(* Further properties of the download steps.                               *)
(***************************************************************************)
\* C28: whenever mast_retrieve_files returns a path, a file exists at that
\* path; a download that fails with an HTTP error is raised to the caller,
\* never turned into a normal return of a path without a file.
C28_ReturnedPathHasFile ==
    mast_ret.kind = "path" =>
        /\ mast_ret.path = PathJoin(mast_call.dir, "file")
        /\ mast_files[mast_call.dir] # "absent"

(***************************************************************************)
(* Properties of download_file.                                            *)
(***************************************************************************)
\* C29: download_file raises ValueError for every url whose scheme is
\* neither http nor https before any request is made, and raises on an HTTP
\* error status before the destination is opened; in both cases the file at
\* dest_path is neither created nor truncated, and it is written only after
\* a successful response.
C29_FailureLeavesNoFile ==
    [][dl_calls' = dl_calls + 1 =>
          /\ Scheme(dl_url') \notin { <<"h", "t", "t", "p">>, <<"h", "t", "t", "p", "s">> } =>
                /\ dl_raised' = "ValueError"
                /\ dl_requests' = dl_requests
                /\ dl_file' = dl_file
          /\ dl_response' = "error" =>
                /\ dl_raised' = "HTTPError"
                /\ dl_file' = dl_file
          /\ dl_file' # dl_file => dl_response' = "ok"]_vars

\* a call with an ftp url was refused without a request and left the old
\* file in place, after a call that an HTTP error ended
C29_Witness ==
    /\ dl_calls = 2
    /\ dl_url = <<"f", "t", "p", ":", "/", "/", "a">>
    /\ dl_raised = "ValueError"
    /\ dl_requests = 1
    /\ dl_response = "none"
    /\ dl_file = "old"

(***************************************************************************)
(* Properties of the cells that open the two-dimensional files.            *)
(***************************************************************************)
\* the wavelength changes along x and not along y
DispersionAlongX(wav) ==
    /\ \A r \in 1 .. Len(wav) : wav[r] = wav[1]
    /\ \E c \in 2 .. Len(wav[1]) : wav[1][c] # wav[1][1]

\* C30: for 'G150C' and for 'G150R' the cells complete without error and
\* yield data, data-quality, error and wavelength arrays of the same shape,
\* with the wavelength direction along x.
C30_GrismOrientation ==
    /\ lpc # "aborted"
    /\ lpc \in {"open_f150w", "opened"} =>
          /\ Shape(opened_2d.dq_2d) = Shape(opened_2d.data_2d)
          /\ Shape(opened_2d.err_2d) = Shape(opened_2d.data_2d)
          /\ Shape(opened_2d.wave_2d) = Shape(opened_2d.data_2d)
          /\ DispersionAlongX(opened_2d.wave_2d)

=============================================================================
